---- MODULE Spec2Model ----
(***************************************************************************)
(* Orchestration core of yt-shorts-automation: the retry decorator and the *)
(* circuit breaker (app/utils/retry.py), the pipeline orchestrator         *)
(* (app/pipeline/orchestrator.py), job workspaces (app/utils/              *)
(* file_manager.py), the parallel clip batch (app/services/                *)
(* video_generator.py), the schedule loop (scheduler.py), the validators   *)
(* (app/pipeline/validators.py) and the generate request (app/api/         *)
(* routes.py).  Each component has its own specification over the shared   *)
(* variable list; the variables of the other components stay at their      *)
(* initial values.                                                         *)
(***************************************************************************)
EXTENDS Integers, Sequences, FiniteSets, TLC

\* ------------------------------------------------------------------------
\* Bounds of the model
\* ------------------------------------------------------------------------
MaxAttempts == 4        \* max_attempts ranges over 0..MaxAttempts
MaxBaseDelay == 2       \* base_delay ranges over 1..MaxBaseDelay (seconds)
MaxRetryAfter == 1      \* retry_after ranges over 0..MaxRetryAfter, in units of RetryAfterStep
MaxThreshold == 2       \* failure_threshold ranges over 0..MaxThreshold
MaxTimeout == 2         \* recovery_timeout ranges over 1..MaxTimeout (clock ticks)
MaxTime == 4            \* the clock stops at MaxTime
MaxCalls == 5           \* CircuitBreaker.call is executed at most MaxCalls times
NumThreads == 2         \* threads sharing one breaker
MaxJobs == 2            \* job ids range over 1..MaxJobs
MaxPrompts == 3         \* batches of 0..MaxPrompts prompts are run in every order
MaxParallel == 3        \* max_parallel_clips ranges over 1..MaxParallel
LargeBatch == 100       \* size of the one large batch
MaxSchedOps == 3        \* start/stop/immediate calls made on the scheduler
MaxFirings == 3         \* trigger firings that begin a run
MaxScenes == 2          \* scripts carry 0..MaxScenes scenes
MaxDuration == 2        \* numeric scene and media durations range over 0..MaxDuration (seconds)
MaxRequests == 2        \* requests served by generate_video
MaxClock == 1           \* seconds of wall-clock time that pass while the runs start
NumSuffixes == 2        \* distinct values of the 8 hex digits taken from uuid4
MaxClients == 2         \* HTTP requests sent to the server process
MaxUnits == 2           \* scenes of the script of a whole run, one clip task each
MaxUploads == 2         \* uploads each run of the process completes

\* ------------------------------------------------------------------------
\* State
\* ------------------------------------------------------------------------
VARIABLES
    \* retry_with_backoff.wrapper
    max_attempts,       \* decorator argument
    base_delay,         \* decorator argument (seconds)
    jitter,             \* decorator argument
    attempt,            \* local `attempt`
    rpc,                \* position of the wrapper: "call", "sleep", "returned", "raised", "fell_through"
    calls,              \* number of times func was invoked by this wrapper call
    sleeps,             \* number of time.sleep calls of this wrapper call
    delay,              \* argument of the last time.sleep, in hundredths of a second
    last_exception,     \* kind of the last exception caught: "none", "retryable", "rate_limit"
    raised_kind,        \* kind of the exception that left the wrapper, "none" if none did
    only_retryable,     \* TRUE while every call of func so far failed with a retryable exception
    retry_after,        \* e.retry_after of the last exception caught, in units of RetryAfterStep, 0 for None
    raised_exc,         \* the exception that left the wrapper: [serial, attempts], serial = the call of func that raised it, attempts = the attempt count it carries (0 = none)
    \* CircuitBreaker
    failure_threshold,  \* constructor argument
    recovery_timeout,   \* constructor argument (clock ticks)
    state,              \* self.state: "closed", "open", "half_open"
    failure_count,      \* self.failure_count
    last_failure_time,  \* self.last_failure_time, NoTime for None
    now,                \* time.time()
    cb_calls,           \* number of CircuitBreaker.call executions that have ended
    cb_result,          \* how the last call ended: "none", "ok", "circuit_open", "expected", "unexpected"
    cb_invocations,     \* number of times the wrapped func was invoked
    admitted_state,     \* self.state when the last call reached line 176, "none" if it did not
    streak,             \* number of expected failures since the last call that ended otherwise than by a failure or a fast-fail
    cpc,                \* per thread: "idle", "invoke" (inside func), "count" (between the read and the write of failure_count)
    admitted,           \* per thread: self.state when the thread reached line 176
    read_count,         \* per thread: the value of self.failure_count read by `+= 1`
    \* VideoOrchestrator.run_pipeline and the job workspace
    auto_cleanup,       \* config.file_retention.auto_cleanup
    job_id,             \* the id generate_job_id returned for this run, 0 before
    pstatus,            \* "idle", "running", "failing" (in the except clause), "success", "raised"
    stage_idx,          \* number of step functions that have returned
    invoked,            \* stages whose collaborator has been invoked
    collab_ok,          \* stages whose collaborator has returned normally
    validated,          \* per stage: "none", "passed", "failed", "raised" (outcome of its validator call)
    workspace,          \* the job directories that exist
    pending,            \* the exception caught by the except clause of run_pipeline
    error,              \* the exception run_pipeline raised
    failed_stage,       \* name of the step function that raised, "none" if none did
    rollback_calls,     \* number of delete_job_files calls
    rmtree_failed,      \* TRUE when shutil.rmtree raised inside delete_job_files
    \* VideoGenerator.generate_clips_batch
    num_prompts,        \* len(prompts)
    max_parallel_clips, \* video_config.max_parallel_clips
    bpc,                \* "start", "running", "failing" (line 383 raised), "returned", "raised"
    started,            \* number of submitted tasks taken by a worker (scenes 1..started)
    running,            \* scene ids of the tasks being executed
    finished,           \* the finished futures in completion order: [scene, ok]
    collected,          \* number of futures as_completed has yielded
    clips,              \* the list `clips`
    batch_result,       \* the list returned, <<>> before
    batch_error,        \* scene id named by the VideoGenerationError of line 383, 0 if none
    \* scheduler.py: the module-level BackgroundScheduler and the job function
    sched_running,      \* scheduler.running
    sched_stopping,     \* TRUE while scheduler.shutdown() waits for the running job instances
    jobstore,           \* the registered triggers: [id, added] (added = the call that registered it)
    instances,          \* per trigger id: executions of the job function in progress
    op_log,             \* the start/stop/immediate calls made so far, in order
    op_outcome,         \* how the last of them ended: "none", "returned", "raised", "pending"
    firings,            \* number of firings that began a run
    skipped,            \* number of firings dropped because an instance was still running
    fn_outcome,         \* how the last scheduled_video_generation call ended: "none", "returned", "raised"
    failures,           \* number of runs that failed inside scheduled_video_generation
    \* PipelineValidator
    v_ceiling,          \* config.settings.max_video_duration
    v_script,           \* the script_data handed to validate_script
    v_artifact,         \* the file handed to validate_audio / validate_video and what ffprobe says of it
    v_call,             \* the call made: "none", "script", "audio", "video"
    v_raised,           \* TRUE when the call raised instead of returning a report
    v_issues,           \* the list of issues returned
    v_executed,         \* the rules of validate_audio / validate_video that were evaluated
    \* routes.generate_video around VideoOrchestrator.run_pipeline
    orchestrator_cached, \* `_orchestrator is not None`
    gpc,                \* "idle", "get_orchestrator", "run_pipeline", "step_except", "pipeline_except", "handler"
    g_stage,            \* the stage being run, 0 outside run_pipeline
    g_exc,              \* the exception in flight: [type, cause, step]
    responses,          \* the responses sent so far: [status, handler, cause, step]
    \* the decorated service calls: AudioGenerator.generate_audio, YouTubeUploader.upload_video
    svc,                \* the service called: "none", "audio", "upload"
    svc_errors,         \* the exception classes raised by the attempts so far, in order
    provider_calls,     \* number of requests made to the external provider (TTS, YouTube)
    \* runs of run_pipeline in one process (manual request, scheduled firing)
    clock,              \* datetime.now() in whole seconds
    retention,          \* config.file_retention.auto_cleanup
    jpc,                \* per run: "idle", "named", "running", "done", "failed"
    jid,                \* per run: the job id generate_job_id returned
    job_dirs,           \* the directories outputs/<type>/<job_id> that exist
    artifacts,          \* the files in them: who wrote them, and where
    \* the server process: uvicorn's event loop, the pool threads of the
    \* background tasks and the worker thread of the scheduler
    loop_task,          \* the request whose handler the event loop is executing (0: none)
    req,                \* per request: its route and how far it got
    sched_thread,       \* the scheduled job: "idle", "running", "sleeping"
    \* a whole run: run_pipeline with the clip batch and its unit tasks inside
    unit_attempts,      \* per scene: executions of the body of generate_video_clip
    \* the upload history file data/metadata/video_history.json
    history_file,       \* the records in the file, in order
    upc,                \* per run: "idle", "saving" (upload done, history not read), "loaded" (history read)
    loaded,             \* per run: the list `history` that json.load returned
    uploads             \* per run: number of successful uploads

retryVars == <<max_attempts, base_delay, jitter, attempt, rpc, calls, sleeps, delay,
               last_exception, raised_kind, only_retryable, retry_after, raised_exc>>

breakerVars == <<failure_threshold, recovery_timeout, state, failure_count, last_failure_time,
                 now, cb_calls, cb_result, cb_invocations, admitted_state, streak>>

threadVars == <<cpc, admitted, read_count>>

pipelineVars == <<auto_cleanup, job_id, pstatus, stage_idx, invoked, collab_ok, validated,
                  workspace, pending, error, failed_stage, rollback_calls, rmtree_failed>>

batchVars == <<num_prompts, max_parallel_clips, bpc, started, running, finished, collected,
               clips, batch_result, batch_error>>

schedVars == <<sched_running, sched_stopping, jobstore, instances, op_log, op_outcome,
               firings, skipped, fn_outcome, failures>>

valVars == <<v_ceiling, v_script, v_artifact, v_call, v_raised, v_issues, v_executed>>

genVars == <<orchestrator_cached, gpc, g_stage, g_exc, responses>>

svcVars == <<svc, svc_errors, provider_calls>>

jobVars == <<clock, retention, jpc, jid, job_dirs, artifacts>>

loopVars == <<loop_task, req, sched_thread>>

runVars == <<unit_attempts>>

histVars == <<history_file, upc, loaded, uploads>>

vars == <<retryVars, breakerVars, threadVars, pipelineVars, batchVars, schedVars, valVars, genVars, svcVars, jobVars, loopVars, runVars, histVars>>

\* ------------------------------------------------------------------------
\* retry_with_backoff (app/utils/retry.py)
\* ------------------------------------------------------------------------
max_delay == 6          \* seconds; the cap of the exponential delay
exponential_base == 2
RetryAfterStep == 5     \* seconds per unit of retry_after
JitterTenths == {5, 10, 14}   \* 10 * (0.5 + random.random()), random.random() in [0, 1)

Min(a, b) == IF a <= b THEN a ELSE b
Max(a, b) == IF a >= b THEN a ELSE b

RECURSIVE Pow(_, _)
Pow(b, e) == IF e = 0 THEN 1 ELSE b * Pow(b, e - 1)

BackoffDelayUncapped(a) == base_delay * Pow(exponential_base, a - 1)

\* delay = min(base_delay * (exponential_base ** (attempt - 1)), max_delay), in seconds
BackoffDelay(a) == Min(base_delay * Pow(exponential_base, a - 1), max_delay)

\* delay * (0.5 + random.random()) when jitter, in hundredths of a second
JitteredDelay(a, f) == IF jitter THEN BackoffDelay(a) * 10 * f ELSE BackoffDelay(a) * 100

WithRetryAfterReplacing(d, kind, ra) ==
    IF kind = "rate_limit" /\ ra # 0 THEN ra * RetryAfterStep * 100 ELSE d

\* max(delay, e.retry_after) for a RateLimitError with a truthy retry_after
WithRetryAfter(d, kind, ra) ==
    IF kind = "rate_limit" /\ ra # 0 THEN Max(d, ra * RetryAfterStep * 100) ELSE d

\* an exception object as func raises it: it carries no attempt count
Raised(serial) == [serial |-> serial, attempts |-> 0]
NoRaised == Raised(0)

RetryInit ==
    /\ max_attempts \in 0..MaxAttempts
    /\ base_delay \in 1..MaxBaseDelay
    /\ jitter \in BOOLEAN
    /\ attempt = 0
    /\ rpc = "call"
    /\ calls = 0
    /\ sleeps = 0
    /\ delay = 0
    /\ last_exception = "none"
    /\ raised_kind = "none"
    /\ only_retryable = TRUE
    /\ retry_after = 0
    /\ raised_exc = NoRaised

\* the wrapper is not in use: the state of the retry layer in the other specifications
RetryUnused ==
    /\ max_attempts = 0
    /\ base_delay = 1
    /\ jitter = FALSE
    /\ attempt = 0
    /\ rpc = "unused"
    /\ calls = 0
    /\ sleeps = 0
    /\ delay = 0
    /\ last_exception = "none"
    /\ raised_kind = "none"
    /\ only_retryable = TRUE
    /\ retry_after = 0
    /\ raised_exc = NoRaised

\* while attempt < max_attempts: fails at once, line 79 returns None
RetryFallThrough ==
    /\ rpc = "call"
    /\ ~(attempt < max_attempts)
    /\ rpc' = "fell_through"
    /\ UNCHANGED <<max_attempts, base_delay, jitter, attempt, calls, sleeps, delay,
                   last_exception, raised_kind, only_retryable, retry_after, raised_exc>>

\* return func(*args, **kwargs) returns normally
RetryCallReturns ==
    /\ rpc = "call"
    /\ attempt < max_attempts
    /\ calls' = calls + 1
    /\ rpc' = "returned"
    /\ only_retryable' = FALSE
    /\ UNCHANGED <<max_attempts, base_delay, jitter, attempt, sleeps, delay,
                   last_exception, raised_kind, retry_after, raised_exc>>

RetryCallRaisesOtherRetried ==
    /\ rpc = "call"
    /\ attempt < max_attempts
    /\ calls' = calls + 1
    /\ attempt' = attempt + 1
    /\ rpc' = "sleep"
    /\ raised_kind' = "other"
    /\ only_retryable' = FALSE
    /\ UNCHANGED <<max_attempts, base_delay, jitter, sleeps, delay, last_exception,
                   retry_after, raised_exc>>

\* func raises an exception that is not an instance of `exceptions`
RetryCallRaisesOther ==
    /\ rpc = "call"
    /\ attempt < max_attempts
    /\ calls' = calls + 1
    /\ rpc' = "raised"
    /\ raised_kind' = "other"
    /\ raised_exc' = Raised(calls + 1)
    /\ only_retryable' = FALSE
    /\ UNCHANGED <<max_attempts, base_delay, jitter, attempt, sleeps, delay, last_exception,
                   retry_after>>

ExhaustedOffByOne(a) == a > max_attempts

ExhaustedNever(a) == FALSE

\* the attempt bound of the except clause: if attempt >= max_attempts: raise
Exhausted(a) == a >= max_attempts

\* func raises an instance of `exceptions`: the except clause, lines 50-77
RetryCallRaisesRetryable(kind, ra, f) ==
    /\ rpc = "call"
    /\ attempt < max_attempts
    /\ calls' = calls + 1
    /\ last_exception' = kind
    /\ retry_after' = (IF kind = "rate_limit" THEN ra ELSE 0)
    /\ attempt' = attempt + 1
    /\ IF Exhausted(attempt + 1)
       THEN /\ rpc' = "raised"
            /\ raised_kind' = kind
            /\ raised_exc' = Raised(calls + 1)
            /\ UNCHANGED delay
       ELSE /\ rpc' = "sleep"
            /\ raised_kind' = raised_kind
            /\ delay' = WithRetryAfter(JitteredDelay(attempt + 1, f), kind, ra)
            /\ UNCHANGED raised_exc
    /\ UNCHANGED <<max_attempts, base_delay, jitter, sleeps, only_retryable>>

\* time.sleep(delay) returns and the loop goes round
RetrySleep ==
    /\ rpc = "sleep"
    /\ sleeps' = sleeps + 1
    /\ rpc' = "call"
    /\ UNCHANGED <<max_attempts, base_delay, jitter, attempt, calls, delay,
                   last_exception, raised_kind, only_retryable, retry_after, raised_exc>>

RetryStep ==
    \/ RetryFallThrough
    \/ RetryCallReturns
    \/ RetryCallRaisesOther
    \/ \E kind \in {"retryable", "rate_limit"}, ra \in 0..MaxRetryAfter, f \in JitterTenths :
          RetryCallRaisesRetryable(kind, ra, f)
    \/ RetrySleep

\* ------------------------------------------------------------------------
\* CircuitBreaker (app/utils/retry.py)
\* ------------------------------------------------------------------------
NoTime == 0 - 1         \* self.last_failure_time = None

Threads == 1..NumThreads

\* the fields of the breaker that call() reads and writes
Breaker == [state |-> state, failure_count |-> failure_count,
            last_failure_time |-> last_failure_time]

\* time.time() - self.last_failure_time >= self.recovery_timeout
RecoveryElapsed(b, t) == t - b.last_failure_time >= recovery_timeout

AdmitPostponing(b, t) ==
    IF b.state = "open"
    THEN IF RecoveryElapsed(b, t)
         THEN [pass |-> TRUE, b |-> [b EXCEPT !.state = "half_open"]]
         ELSE [pass |-> FALSE, b |-> [b EXCEPT !.last_failure_time = t]]
    ELSE [pass |-> TRUE, b |-> b]

\* lines 169-174: pass is FALSE when the call raises "Circuit breaker is open"
Admit(b, t) ==
    IF b.state = "open"
    THEN IF RecoveryElapsed(b, t)
         THEN [pass |-> TRUE, b |-> [b EXCEPT !.state = "half_open"]]
         ELSE [pass |-> FALSE, b |-> b]
    ELSE [pass |-> TRUE, b |-> b]

OnSuccessNoReset(b) == IF b.state = "half_open" THEN [b EXCEPT !.state = "closed"] ELSE b

OnSuccessResetsAlways(b) ==
    [b EXCEPT !.state = IF b.state = "half_open" THEN "closed" ELSE b.state,
              !.failure_count = 0]

\* lines 180-183: func returned
OnSuccess(b) ==
    IF b.state = "half_open"
    THEN [b EXCEPT !.state = "closed", !.failure_count = 0]
    ELSE b

ShouldOpenOffByOne(c) == c > failure_threshold

\* if self.failure_count >= self.failure_threshold
ShouldOpen(c) == c >= failure_threshold

\* lines 188-192: func raised expected_exception; c is the failure_count that `+= 1` read
OnFailure(b, c, t) ==
    LET b1 == [b EXCEPT !.failure_count = c + 1, !.last_failure_time = t]
    IN  IF ShouldOpen(b1.failure_count) THEN [b1 EXCEPT !.state = "open"] ELSE b1

CaughtAny(kind) == kind \in {"expected", "unexpected"}

\* except self.expected_exception
Caught(kind) == kind = "expected"

\* lines 176-198 run by one caller without interruption; t is time.time() at line 189
AfterFunc(b, kind, t) ==
    IF kind = "ok" THEN OnSuccess(b)
    ELSE IF Caught(kind) THEN OnFailure(b, b.failure_count, t)
    ELSE b

BreakerInit ==
    /\ failure_threshold \in 0..MaxThreshold
    /\ recovery_timeout \in 1..MaxTimeout
    /\ state = "closed"
    /\ failure_count = 0
    /\ last_failure_time = NoTime
    /\ now = 0
    /\ cb_calls = 0
    /\ cb_result = "none"
    /\ cb_invocations = 0
    /\ admitted_state = "none"
    /\ streak = 0

BreakerUnused ==
    /\ failure_threshold = 0
    /\ recovery_timeout = 1
    /\ state = "closed"
    /\ failure_count = 0
    /\ last_failure_time = NoTime
    /\ now = 0
    /\ cb_calls = 0
    /\ cb_result = "none"
    /\ cb_invocations = 0
    /\ admitted_state = "none"
    /\ streak = 0

ThreadsIdle ==
    /\ cpc = [t \in Threads |-> "idle"]
    /\ admitted = [t \in Threads |-> "none"]
    /\ read_count = [t \in Threads |-> 0]

SetBreaker(b) ==
    /\ state' = b.state
    /\ failure_count' = b.failure_count
    /\ last_failure_time' = b.last_failure_time

\* time.time() advances
Tick ==
    /\ now < MaxTime
    /\ now' = now + 1
    /\ UNCHANGED <<failure_threshold, recovery_timeout, state, failure_count, last_failure_time,
                   cb_calls, cb_result, cb_invocations, admitted_state, streak>>

\* CircuitBreaker.call by a single caller; func ends as `kind` after d ticks
Call(kind, d) ==
    /\ cb_calls < MaxCalls
    /\ now + d <= MaxTime
    /\ cb_calls' = cb_calls + 1
    /\ LET a == Admit(Breaker, now)
       IN  IF a.pass
           THEN /\ SetBreaker(AfterFunc(a.b, kind, now + d))
                /\ now' = now + d
                /\ cb_result' = kind
                /\ cb_invocations' = cb_invocations + 1
                /\ admitted_state' = a.b.state
                /\ streak' = IF kind = "expected" THEN streak + 1 ELSE 0
           ELSE /\ SetBreaker(a.b)
                /\ cb_result' = "circuit_open"
                /\ admitted_state' = "none"
                /\ UNCHANGED <<now, cb_invocations, streak>>
    /\ UNCHANGED <<failure_threshold, recovery_timeout>>

BreakerStep ==
    \/ Tick
    \/ \E kind \in {"ok", "expected", "unexpected"}, d \in 0..1 : Call(kind, d)

\* --- CircuitBreaker.call run by several threads on one breaker ----------

\* lines 169-176: thread t enters call() and either fast-fails or invokes func
ThreadEnter(t) ==
    /\ cpc[t] = "idle"
    /\ cb_calls + Cardinality({u \in Threads : cpc[u] # "idle"}) < MaxCalls
    /\ LET a == Admit(Breaker, now)
       IN  IF a.pass
           THEN /\ SetBreaker(a.b)
                /\ cpc' = [cpc EXCEPT ![t] = "invoke"]
                /\ admitted' = [admitted EXCEPT ![t] = a.b.state]
                /\ cb_invocations' = cb_invocations + 1
                /\ UNCHANGED <<cb_calls, cb_result>>
           ELSE /\ SetBreaker(a.b)
                /\ cb_calls' = cb_calls + 1
                /\ cb_result' = "circuit_open"
                /\ UNCHANGED <<cpc, admitted, cb_invocations>>
    /\ UNCHANGED <<failure_threshold, recovery_timeout, now, admitted_state, streak, read_count>>

\* lines 177-185: func returned in thread t
ThreadFuncReturns(t) ==
    /\ cpc[t] = "invoke"
    /\ SetBreaker(OnSuccess(Breaker))
    /\ cpc' = [cpc EXCEPT ![t] = "idle"]
    /\ cb_calls' = cb_calls + 1
    /\ cb_result' = "ok"
    /\ UNCHANGED <<failure_threshold, recovery_timeout, now, cb_invocations, admitted_state,
                   streak, admitted, read_count>>

\* line 187-188: func raised in thread t; a caught exception reads failure_count
ThreadFuncRaises(t, kind) ==
    /\ cpc[t] = "invoke"
    /\ IF Caught(kind)
       THEN /\ read_count' = [read_count EXCEPT ![t] = failure_count]
            /\ cpc' = [cpc EXCEPT ![t] = "count"]
            /\ UNCHANGED <<cb_calls, cb_result>>
       ELSE /\ cpc' = [cpc EXCEPT ![t] = "idle"]
            /\ cb_calls' = cb_calls + 1
            /\ cb_result' = "unexpected"
            /\ UNCHANGED read_count
    /\ UNCHANGED <<failure_threshold, recovery_timeout, state, failure_count, last_failure_time,
                   now, cb_invocations, admitted_state, streak, admitted>>

\* lines 188-198: thread t stores failure_count, the failure time and the state
ThreadCount(t) ==
    /\ cpc[t] = "count"
    /\ SetBreaker(OnFailure(Breaker, read_count[t], now))
    /\ cpc' = [cpc EXCEPT ![t] = "idle"]
    /\ cb_calls' = cb_calls + 1
    /\ cb_result' = "expected"
    /\ UNCHANGED <<failure_threshold, recovery_timeout, now, cb_invocations, admitted_state,
                   streak, admitted, read_count>>

ThreadStep ==
    \/ Tick /\ UNCHANGED threadVars
    \/ \E t \in Threads : ThreadEnter(t)
    \/ \E t \in Threads : ThreadFuncReturns(t)
    \/ \E t \in Threads, kind \in {"expected", "unexpected"} : ThreadFuncRaises(t, kind)
    \/ \E t \in Threads : ThreadCount(t)

\* ------------------------------------------------------------------------
\* VideoOrchestrator.run_pipeline (app/pipeline/orchestrator.py) and the job
\* workspace (app/utils/file_manager.py)
\* ------------------------------------------------------------------------
JobIds == 1..MaxJobs

StageNames == <<"script_generation", "video_generation", "audio_generation",
                "video_combination", "youtube_upload">>

NumStages == Len(StageNames)

\* the stages whose step function calls self.validator (lines 136, 211, 258)
HasValidation(k) == k \in {1, 3, 4}

\* the directories of a job, in the order create_job_directories and
\* delete_job_files go through them
DirOrder == <<"scripts", "images", "audio", "videos">>

AllDirs == {DirOrder[i] : i \in 1..Len(DirOrder)}

DirIndex(d) == CHOOSE i \in 1..Len(DirOrder) : DirOrder[i] = d

\* An exception: its class, the step and job_id attributes of a PipelineError
\* ("none", 0 otherwise) and the keywords of _get_current_step that occur in
\* str(e).lower().
Exc(type, step, id, words) == [type |-> type, step |-> step, job_id |-> id, words |-> words]

NoExc == Exc("none", "none", 0, {})

\* keywords contained in the messages of the collaborators' own errors
InnerWords == {{}, {"script"}, {"video"}, {"upload"}}

\* keywords in the prefix each step function puts before str(e):
\* "Script generation failed", "Video generation failed", "Audio generation
\* failed", "Video combination failed", "YouTube upload failed"
StepPrefixWords(k) ==
    CASE k = 1 -> {"script"}
      [] k = 2 -> {"video"}
      [] k = 3 -> {"audio"}
      [] k = 4 -> {"video"}
      [] k = 5 -> {"youtube", "upload"}

\* keywords in "Script validation failed", "Audio validation failed", "Video validation failed"
ValidationWords(k) ==
    CASE k = 1 -> {"script"}
      [] k = 3 -> {"audio"}
      [] k = 4 -> {"video"}
      [] OTHER -> {}

\* the keyword heuristic of _get_current_step, lines 316-330
StepByWords(words) ==
    IF "script" \in words THEN "script_generation"
    ELSE IF "prompt" \in words THEN "prompt_enhancement"
    ELSE IF words \cap {"video", "clip", "gemini"} # {} THEN "video_generation"
    ELSE IF "audio" \in words THEN "audio_generation"
    ELSE IF words \cap {"combine", "concatenate"} # {} THEN "video_combination"
    ELSE IF words \cap {"youtube", "upload"} # {} THEN "youtube_upload"
    ELSE "unknown"

GetCurrentStepByWordsOnly(e) == StepByWords(e.words)

GetCurrentStepHeuristicFirst(e) ==
    IF StepByWords(e.words) # "unknown" THEN StepByWords(e.words)
    ELSE IF e.type = "PipelineError" /\ e.step # "none" THEN e.step ELSE "unknown"

\* _get_current_step, lines 313-330
GetCurrentStep(e) ==
    IF e.type = "PipelineError"
    THEN IF e.step # "none" THEN e.step ELSE "unknown"
    ELSE StepByWords(e.words)

\* what delete_job_files leaves of workspace ws when shutil.rmtree raises on
\* directory fail_at ("none": never): the loop stops at the first failure
DeleteJobFiles(ws, fail_at) ==
    IF fail_at \in ws
    THEN {d \in ws : DirIndex(d) >= DirIndex(fail_at)}
    ELSE {}

CleanupAlways == TRUE

\* if self.config.file_retention.auto_cleanup (line 107)
CleanupEnabled == auto_cleanup

PipelineInit ==
    /\ auto_cleanup \in BOOLEAN
    /\ job_id = 0
    /\ pstatus = "idle"
    /\ stage_idx = 0
    /\ invoked = {}
    /\ collab_ok = {}
    /\ validated = [k \in 1..NumStages |-> "none"]
    /\ workspace = {}
    /\ pending = NoExc
    /\ error = NoExc
    /\ failed_stage = "none"
    /\ rollback_calls = 0
    /\ rmtree_failed = FALSE

PipelineUnused ==
    /\ auto_cleanup = FALSE
    /\ job_id = 0
    /\ pstatus = "unused"
    /\ stage_idx = 0
    /\ invoked = {}
    /\ collab_ok = {}
    /\ validated = [k \in 1..NumStages |-> "none"]
    /\ workspace = {}
    /\ pending = NoExc
    /\ error = NoExc
    /\ failed_stage = "none"
    /\ rollback_calls = 0
    /\ rmtree_failed = FALSE

\* lines 51-58: generate_job_id and create_job_directories; mkdir raises on
\* directory fail_at ("none": never), which create_job_directories turns
\* into a FileOperationError
PipelineStart(id, fail_at, words) ==
    /\ pstatus = "idle"
    /\ job_id' = id
    /\ IF fail_at = "none"
       THEN /\ workspace' = AllDirs
            /\ pstatus' = "running"
            /\ UNCHANGED pending
       ELSE /\ workspace' = {d \in AllDirs : DirIndex(d) < DirIndex(fail_at)}
            /\ pstatus' = "failing"
            /\ pending' = Exc("FileOperationError", "none", 0, words)
    /\ UNCHANGED <<auto_cleanup, stage_idx, invoked, collab_ok, validated, error,
                   failed_stage, rollback_calls, rmtree_failed>>

\* The exception, if any, that the body of step function k raises: the
\* collaborator ends as collab ("ok", "raise"), the validator as valid
\* ("pass", "fail", "raise"), save_script as save ("ok", "raise").
StepBodyRaises(k, collab, valid, save) ==
    \/ collab = "raise"
    \/ HasValidation(k) /\ valid # "pass"
    \/ k = 1 /\ save = "raise"

StepBodyWords(k, collab, valid, words) ==
    IF collab = "raise" THEN words
    ELSE IF HasValidation(k) /\ valid = "fail" THEN ValidationWords(k)
    ELSE words

\* Step function k (_step_generate_script .. _step_upload_to_youtube) called
\* from run_pipeline, lines 61-100; every exception of its body is raised as
\* PipelineError(step=StageNames[k], job_id=job_id) by its except clause.
RunStage(k, collab, valid, save, words) ==
    /\ pstatus = "running"
    /\ stage_idx = k - 1
    /\ invoked' = invoked \cup {k}
    /\ collab_ok' = IF collab = "ok" THEN collab_ok \cup {k} ELSE collab_ok
    /\ validated' = IF collab = "ok" /\ HasValidation(k)
                    THEN [validated EXCEPT ![k] = CASE valid = "pass" -> "passed"
                                                    [] valid = "fail" -> "failed"
                                                    [] OTHER -> "raised"]
                    ELSE validated
    /\ IF StepBodyRaises(k, collab, valid, save)
       THEN /\ pending' = Exc("PipelineError", StageNames[k], job_id,
                              StepPrefixWords(k) \cup StepBodyWords(k, collab, valid, words))
            /\ failed_stage' = StageNames[k]
            /\ pstatus' = "failing"
            /\ UNCHANGED stage_idx
       ELSE /\ stage_idx' = k
            /\ pstatus' = IF k = NumStages THEN "success" ELSE "running"
            /\ UNCHANGED <<pending, failed_stage>>
    /\ UNCHANGED <<auto_cleanup, job_id, workspace, error, rollback_calls, rmtree_failed>>

\* lines 102-115: the except clause of run_pipeline; shutil.rmtree raises on
\* directory fail_at ("none": never) and delete_job_files returns False
HandleFailure(fail_at) ==
    /\ pstatus = "failing"
    /\ IF CleanupEnabled
       THEN /\ workspace' = DeleteJobFiles(workspace, fail_at)
            /\ rollback_calls' = rollback_calls + 1
            /\ rmtree_failed' = (fail_at \in workspace)
       ELSE UNCHANGED <<workspace, rollback_calls, rmtree_failed>>
    /\ error' = Exc("PipelineError", GetCurrentStep(pending), job_id, pending.words)
    /\ pstatus' = "raised"
    /\ UNCHANGED <<auto_cleanup, job_id, stage_idx, invoked, collab_ok, validated, pending,
                   failed_stage>>

PipelineStep ==
    \/ \E id \in JobIds, fail_at \in {"none"} \cup AllDirs, words \in InnerWords :
          PipelineStart(id, fail_at, words)
    \/ \E k \in 1..NumStages, collab \in {"ok", "raise"}, valid \in {"pass", "fail", "raise"},
          save \in {"ok", "raise"}, words \in InnerWords :
          RunStage(k, collab, valid, save, words)
    \/ \E fail_at \in {"none"} \cup AllDirs : HandleFailure(fail_at)

\* ------------------------------------------------------------------------
\* VideoGenerator.generate_clips_batch (app/services/video_generator.py)
\* ------------------------------------------------------------------------
PadWidth == 2           \* f"scene_{scene_id:02d}.mp4"
DigitZero == 48         \* ord("0")
Dot == 46               \* ord(".")
EstimatedDuration == 8  \* the duration _get_video_duration falls back to

\* the decimal digits of n, most significant first, as character codes
RECURSIVE Digits(_)
Digits(n) == IF n < 10 THEN <<DigitZero + n>> ELSE Append(Digits(n \div 10), DigitZero + (n % 10))

RECURSIVE PadLeft(_, _)
PadLeft(s, w) == IF Len(s) >= w THEN s ELSE PadLeft(<<DigitZero>> \o s, w)

\* output_path of scene scene_id, line 364, without the prefix
\* "<output_dir>/scene_" and the suffix "mp4" that all scenes share
ScenePath(scene_id) == Append(PadLeft(Digits(scene_id), PadWidth), Dot)

\* a < b for two Python strings given as sequences of character codes
RECURSIVE StrLess(_, _)
StrLess(a, b) ==
    IF b = <<>> THEN FALSE
    ELSE IF a = <<>> THEN TRUE
    ELSE IF Head(a) # Head(b) THEN Head(a) < Head(b)
    ELSE StrLess(Tail(a), Tail(b))

\* the (video_path, duration) tuple that generate_video_clip returns for a scene
Clip(scene_id) == [path |-> ScenePath(scene_id), duration |-> EstimatedDuration, scene |-> scene_id]

\* clips.sort(key=lambda x: x[0]), line 386
SortClips(cs) == SortSeq(cs, LAMBDA x, y : StrLess(x.path, y.path))

MaxWorkersUnbounded == num_prompts

\* max_workers = min(self.video_config.max_parallel_clips, len(prompts)), line 356
MaxWorkers == Min(max_parallel_clips, num_prompts)

\* The batches of the model: every batch of up to MaxPrompts prompts with up
\* to MaxParallel workers, and one batch of LargeBatch prompts run by a
\* single worker whose unit tasks all succeed.
BatchInputs ==
    {<<n, w>> : n \in 0..MaxPrompts, w \in 1..MaxParallel} \cup {<<LargeBatch, 1>>}

BatchRest ==
    /\ started = 0
    /\ running = {}
    /\ finished = <<>>
    /\ collected = 0
    /\ clips = <<>>
    /\ batch_result = <<>>
    /\ batch_error = 0

BatchInit ==
    /\ \E b \in BatchInputs : num_prompts = b[1] /\ max_parallel_clips = b[2]
    /\ bpc = "start"
    /\ BatchRest

BatchUnused ==
    /\ num_prompts = 0
    /\ max_parallel_clips = 1
    /\ bpc = "unused"
    /\ BatchRest

BatchBeginAcceptsEmpty ==
    /\ bpc = "start"
    /\ bpc' = "running"
    /\ UNCHANGED <<num_prompts, max_parallel_clips, started, running, finished, collected,
                   clips, batch_result, batch_error>>

\* lines 349-372: the pool is created and every prompt is submitted;
\* ThreadPoolExecutor(max_workers=0) raises ValueError, which line 394 turns
\* into VideoGenerationError
BatchBegin ==
    /\ bpc = "start"
    /\ bpc' = IF MaxWorkers <= 0 THEN "raised" ELSE "running"
    /\ UNCHANGED <<num_prompts, max_parallel_clips, started, running, finished, collected,
                   clips, batch_result, batch_error>>

WorkerStartUntilFailure ==
    /\ bpc = "running"
    /\ started < num_prompts
    /\ Cardinality(running) < MaxWorkers
    /\ started' = started + 1
    /\ running' = running \cup {started + 1}
    /\ UNCHANGED <<num_prompts, max_parallel_clips, bpc, finished, collected, clips,
                   batch_result, batch_error>>

\* a free worker thread takes the oldest submitted task off the queue
WorkerStart ==
    /\ bpc \in {"running", "failing"}
    /\ started < num_prompts
    /\ Cardinality(running) < MaxWorkers
    /\ started' = started + 1
    /\ running' = running \cup {started + 1}
    /\ UNCHANGED <<num_prompts, max_parallel_clips, bpc, finished, collected, clips,
                   batch_result, batch_error>>

\* generate_video_clip (with its own retries) returns or raises for scene i
WorkerFinish(i, ok) ==
    /\ i \in running
    /\ ok \/ num_prompts <= MaxPrompts
    /\ running' = running \ {i}
    /\ finished' = Append(finished, [scene |-> i, ok |-> ok])
    /\ UNCHANGED <<num_prompts, max_parallel_clips, bpc, started, collected, clips,
                   batch_result, batch_error>>

CollectSkipFailed ==
    /\ bpc = "running"
    /\ collected < Len(finished)
    /\ collected' = collected + 1
    /\ LET f == finished[collected + 1]
       IN  clips' = IF f.ok THEN Append(clips, Clip(f.scene)) ELSE clips
    /\ UNCHANGED <<num_prompts, max_parallel_clips, bpc, started, running, finished,
                   batch_result, batch_error>>

\* lines 375-383: as_completed yields the next finished future
Collect ==
    /\ bpc = "running"
    /\ collected < Len(finished)
    /\ collected' = collected + 1
    /\ LET f == finished[collected + 1]
       IN  IF f.ok
           THEN /\ clips' = Append(clips, Clip(f.scene))
                /\ UNCHANGED <<bpc, batch_error>>
           ELSE /\ bpc' = "failing"
                /\ batch_error' = f.scene
                /\ UNCHANGED clips
    /\ UNCHANGED <<num_prompts, max_parallel_clips, started, running, finished, batch_result>>

\* lines 385-389: every future was collected; the clips are sorted and returned
BatchReturn ==
    /\ bpc = "running"
    /\ collected = num_prompts
    /\ batch_result' = SortClips(clips)
    /\ bpc' = "returned"
    /\ UNCHANGED <<num_prompts, max_parallel_clips, started, running, finished, collected,
                   clips, batch_error>>

BatchRaiseAtOnce ==
    /\ bpc = "failing"
    /\ bpc' = "raised"
    /\ UNCHANGED <<num_prompts, max_parallel_clips, started, running, finished, collected,
                   clips, batch_result, batch_error>>

\* leaving the `with` block after line 383 raised: the executor's shutdown
\* waits until every submitted task has run, then the error propagates
BatchRaise ==
    /\ bpc = "failing"
    /\ started = num_prompts
    /\ running = {}
    /\ bpc' = "raised"
    /\ UNCHANGED <<num_prompts, max_parallel_clips, started, running, finished, collected,
                   clips, batch_result, batch_error>>

BatchStep ==
    \/ BatchBegin
    \/ WorkerStart
    \/ \E i \in running, ok \in BOOLEAN : WorkerFinish(i, ok)
    \/ Collect
    \/ BatchReturn
    \/ BatchRaise

\* ------------------------------------------------------------------------
\* scheduler.py: the schedule loop around one BackgroundScheduler
\* ------------------------------------------------------------------------
Recurring == "video_generation_job"
Immediate == "immediate_run"
TriggerIds == {Recurring, Immediate}

\* max_instances of the recurring job; the date job has the library default, also 1
max_instances == 1

\* the ways a run can fail inside the try block of scheduled_video_generation,
\* all of them subclasses of Exception
RunFailures == {"orchestrator_init", "pipeline_error", "result_key"}
RunOutcomes == {"ok"} \cup RunFailures

\* add_job(..., id=id, replace_existing=True): a trigger of the same id is replaced
AddJob(store, id, stamp) ==
    {j \in store : j.id # id} \cup {[id |-> id, added |-> stamp]}

HasJob(store, id) == \E j \in store : j.id = id

\* `if scheduler.running:` of start_scheduler and schedule_immediate_and_recurring
AlreadyRunningNever == FALSE
AlreadyRunning == sched_running

\* the executor's admission test of a firing against max_instances
CanSubmitAlways(id) == TRUE
CanSubmitSerialized(id) == \A j \in TriggerIds : instances[j] < max_instances
CanSubmit(id) == instances[id] < max_instances

\* `except Exception as e:` of scheduled_video_generation
AbsorbsNone(kind) == FALSE
Absorbs(kind) == kind \in RunFailures

SchedInit ==
    /\ sched_running = FALSE
    /\ sched_stopping = FALSE
    /\ jobstore = {}
    /\ instances = [id \in TriggerIds |-> 0]
    /\ op_log = <<>>
    /\ op_outcome = "none"
    /\ firings = 0
    /\ skipped = 0
    /\ fn_outcome = "none"
    /\ failures = 0

SchedUnused == SchedInit

\* a call of one of the three entry points; they are made from the event
\* loop, one at a time, and shutdown() blocks its caller
SchedCall(op) ==
    /\ Len(op_log) < MaxSchedOps
    /\ ~sched_stopping
    /\ op_log' = Append(op_log, op)

\* scheduler.start() after the add_job calls
SchedulerStart(store) ==
    IF sched_running
    THEN /\ op_outcome' = "raised"
         /\ jobstore' = store
         /\ UNCHANGED sched_running
    ELSE /\ op_outcome' = "returned"
         /\ jobstore' = store
         /\ sched_running' = TRUE

StartScheduler(config_ok) ==
    /\ SchedCall("start")
    /\ IF ~config_ok
       THEN op_outcome' = "raised" /\ UNCHANGED <<sched_running, jobstore>>
       ELSE IF AlreadyRunning
            THEN op_outcome' = "returned" /\ UNCHANGED <<sched_running, jobstore>>
            ELSE SchedulerStart(AddJob(jobstore, Recurring, Len(op_log) + 1))
    /\ UNCHANGED <<sched_stopping, instances, firings, skipped, fn_outcome, failures>>

ScheduleImmediateAndRecurring(config_ok) ==
    /\ SchedCall("immediate")
    /\ IF ~config_ok
       THEN op_outcome' = "raised" /\ UNCHANGED <<sched_running, jobstore>>
       ELSE IF AlreadyRunning
            THEN op_outcome' = "returned" /\ UNCHANGED <<sched_running, jobstore>>
            ELSE SchedulerStart(AddJob(AddJob(jobstore, Immediate, Len(op_log) + 1),
                                       Recurring, Len(op_log) + 1))
    /\ UNCHANGED <<sched_stopping, instances, firings, skipped, fn_outcome, failures>>

\* stop_scheduler: shutdown() marks the scheduler stopped, then waits
StopScheduler ==
    /\ SchedCall("stop")
    /\ IF ~sched_running
       THEN op_outcome' = "returned" /\ UNCHANGED <<sched_running, sched_stopping>>
       ELSE op_outcome' = "pending" /\ sched_running' = FALSE /\ sched_stopping' = TRUE
    /\ UNCHANGED <<jobstore, instances, firings, skipped, fn_outcome, failures>>

\* shutdown() returns once no job instance is running; the job store is emptied
ShutdownCompletes ==
    /\ sched_stopping
    /\ \A id \in TriggerIds : instances[id] = 0
    /\ sched_stopping' = FALSE
    /\ jobstore' = {}
    /\ op_outcome' = "returned"
    /\ UNCHANGED <<sched_running, instances, op_log, firings, skipped, fn_outcome, failures>>

\* a trigger comes due; a date trigger is removed once it has fired
Fire(id) ==
    /\ sched_running
    /\ HasJob(jobstore, id)
    /\ firings < MaxFirings
    /\ IF CanSubmit(id)
       THEN /\ instances' = [instances EXCEPT ![id] = @ + 1]
            /\ firings' = firings + 1
            /\ UNCHANGED skipped
       ELSE /\ skipped' = skipped + 1
            /\ skipped < MaxFirings
            /\ UNCHANGED <<instances, firings>>
    /\ jobstore' = IF id = Immediate THEN {j \in jobstore : j.id # Immediate} ELSE jobstore
    /\ UNCHANGED <<sched_running, sched_stopping, op_log, op_outcome, fn_outcome, failures>>

\* scheduled_video_generation comes to its end
RunEnds(id, outcome) ==
    /\ instances[id] > 0
    /\ instances' = [instances EXCEPT ![id] = @ - 1]
    /\ fn_outcome' = IF outcome = "ok" \/ Absorbs(outcome) THEN "returned" ELSE "raised"
    /\ failures' = IF outcome = "ok" THEN failures ELSE failures + 1
    /\ UNCHANGED <<sched_running, sched_stopping, jobstore, op_log, op_outcome, firings, skipped>>

SchedStep ==
    \/ \E config_ok \in BOOLEAN : StartScheduler(config_ok)
    \/ \E config_ok \in BOOLEAN : ScheduleImmediateAndRecurring(config_ok)
    \/ StopScheduler
    \/ ShutdownCompletes
    \/ \E id \in TriggerIds : Fire(id)
    \/ \E id \in TriggerIds, outcome \in RunOutcomes : RunEnds(id, outcome)

\* ------------------------------------------------------------------------
\* app/pipeline/validators.py: PipelineValidator.validate_script
\* ------------------------------------------------------------------------
\* A script is [title, description, tags, scenes_kind, scenes].  Fields are
\* given by the case the code distinguishes: "missing" (key absent), "empty"
\* (falsy), "ok", "too_long", "number" (a non-zero int where text is
\* expected), "not_list".  A scene is [description, duration]; its scene_id
\* and voiceover are present and well-formed.  A duration is
\* [kind, value] with kind "missing", "not_number" or "number".
TitleCases == {"missing", "empty", "ok", "too_long", "number"}
DescriptionCases == {"ok", "empty"}
TagsCases == {"missing", "not_list", "empty", "ok"}
SceneDescriptionCases == {"ok", "blank", "not_text"}
Durations ==
    {[kind |-> "missing", value |-> 0], [kind |-> "not_number", value |-> 0]}
        \cup {[kind |-> "number", value |-> n] : n \in 0..MaxDuration}
Scenes == [description : SceneDescriptionCases, duration : Durations]
SceneLists == UNION {[1..n -> Scenes] : n \in 0..MaxScenes}
Ceilings == {MaxDuration, MaxDuration + 1}

Issue(rule, detail, scene) == [rule |-> rule, detail |-> detail, scene |-> scene]
IssueIf(cond, issue) == IF cond THEN <<issue>> ELSE <<>>

\* lines 36-39: one issue per absent required field, in the order of required_fields
MissingFields(s) ==
    IssueIf(s.title = "missing", Issue("required_title", "missing", 0))
        \o IssueIf(s.description = "missing", Issue("required_description", "missing", 0))
        \o IssueIf(s.tags = "missing", Issue("required_tags", "missing", 0))
        \o IssueIf(s.scenes_kind = "missing", Issue("required_scenes", "missing", 0))

\* lines 42-47
TitleIssues(s) ==
    IF s.title = "empty" THEN <<Issue("title", "empty", 0)>>
    ELSE IF s.title = "too_long" THEN <<Issue("title", "too_long", 0)>>
    ELSE <<>>

\* lines 50-55
DescriptionIssues(s) ==
    IF s.description = "empty" THEN <<Issue("description", "empty", 0)>>
    ELSE IF s.description = "too_long" THEN <<Issue("description", "too_long", 0)>>
    ELSE <<>>

\* lines 58-63
TagsIssuesUnlessTitleFailed(s) ==
    IF TitleIssues(s) # <<>> THEN <<>>
    ELSE IF s.tags = "not_list" THEN <<Issue("tags", "not_list", 0)>>
    ELSE IF s.tags = "empty" THEN <<Issue("tags", "empty", 0)>>
    ELSE <<>>
TagsIssues(s) ==
    IF s.tags = "not_list" THEN <<Issue("tags", "not_list", 0)>>
    ELSE IF s.tags = "empty" THEN <<Issue("tags", "empty", 0)>>
    ELSE <<>>

\* line 119: `not isinstance(duration, (int, float)) or duration <= 0`
InvalidDuration(d) == d.kind = "not_number" \/ (d.kind = "number" /\ d.value <= 0)

\* _validate_scene, lines 104-122
ValidateScene(scene, scene_number) ==
    IssueIf(scene.duration.kind = "missing", Issue("scene_required_duration", "missing", scene_number))
        \o IssueIf(scene.description = "blank", Issue("scene_description", "empty", scene_number))
        \o IssueIf(scene.duration.kind # "missing" /\ InvalidDuration(scene.duration),
                   Issue("scene_duration", "invalid", scene_number))

\* line 111: scene["description"].strip() of a value that is not text
SceneRaises(scene) == scene.description = "not_text"

RECURSIVE EachScene(_, _)
EachScene(scenes, i) ==
    IF i > Len(scenes) THEN <<>>
    ELSE ValidateScene(scenes[i], i) \o EachScene(scenes, i + 1)

\* lines 66-75
ScenesIssues(s) ==
    IF s.scenes_kind = "missing" THEN <<>>
    ELSE IF s.scenes_kind = "not_list" THEN <<Issue("scenes", "not_list", 0)>>
    ELSE IF Len(s.scenes) = 0 THEN <<Issue("scenes", "empty", 0)>>
    ELSE EachScene(s.scenes, 1)

\* line 79: sum(scene.get("duration", 0) for scene in scenes)
RECURSIVE TotalDuration(_, _)
TotalDuration(scenes, i) ==
    IF i > Len(scenes) THEN 0
    ELSE (IF scenes[i].duration.kind = "number" THEN scenes[i].duration.value ELSE 0)
             + TotalDuration(scenes, i + 1)

\* line 80
ExceedsCeilingStrictly(total, ceiling) == total > ceiling
ExceedsCeiling(total, ceiling) == total >= ceiling

\* lines 78-84
TotalDurationIssues(s, ceiling) ==
    IssueIf(s.scenes_kind = "list" /\ ExceedsCeiling(TotalDuration(s.scenes, 1), ceiling),
            Issue("total_duration", "exceeds", 0))

\* the statements of validate_script that raise: len() of a number (line 44),
\* .strip() of a non-text description (line 111), sum() over a non-numeric
\* duration (line 79)
ScriptRaises(s) ==
    \/ s.title = "number"
    \/ /\ s.scenes_kind = "list"
       /\ \E i \in 1..Len(s.scenes) :
             SceneRaises(s.scenes[i]) \/ s.scenes[i].duration.kind = "not_number"

ValidateScript(s, ceiling) ==
    IF ScriptRaises(s)
    THEN [raised |-> TRUE, issues |-> <<>>]
    ELSE [raised |-> FALSE,
          issues |-> MissingFields(s) \o TitleIssues(s) \o DescriptionIssues(s) \o TagsIssues(s)
                       \o ScenesIssues(s) \o TotalDurationIssues(s, ceiling)]

ScriptSubject(t, d, g, k, sc) ==
    [title |-> t, description |-> d, tags |-> g, scenes_kind |-> k, scenes |-> sc]

DefaultScript == ScriptSubject("ok", "ok", "ok", "list", <<>>)
DefaultArtifact ==
    [exists |-> FALSE, size_zero |-> FALSE, probe |-> "ok", has_video |-> TRUE, width |-> "ok",
     height |-> "ok", duration |-> [kind |-> "number", value |-> 0], has_audio |-> TRUE]

ValidatorIdle ==
    /\ v_call = "none"
    /\ v_raised = FALSE
    /\ v_issues = <<>>
    /\ v_executed = {}

ValidatorUnused ==
    /\ v_ceiling = MaxDuration
    /\ v_script = DefaultScript
    /\ v_artifact = DefaultArtifact
    /\ ValidatorIdle

ValidateScriptInit ==
    /\ v_ceiling \in Ceilings
    /\ \E t \in TitleCases, d \in DescriptionCases, g \in TagsCases,
          k \in {"list", "missing", "not_list"}, sc \in SceneLists :
          /\ k # "list" => (sc = <<>> /\ d = "ok")
          /\ v_script = ScriptSubject(t, d, g, k, sc)
    /\ v_artifact = DefaultArtifact
    /\ ValidatorIdle

\* validate_script(script_data); script_data is only read
ValidateScriptCall ==
    /\ v_call = "none"
    /\ v_call' = "script"
    /\ v_raised' = ValidateScript(v_script, v_ceiling).raised
    /\ v_issues' = ValidateScript(v_script, v_ceiling).issues
    /\ UNCHANGED <<v_ceiling, v_script, v_artifact, v_executed>>

\* ------------------------------------------------------------------------
\* app/pipeline/validators.py: validate_audio and validate_video
\* ------------------------------------------------------------------------
\* An artifact is the file at the path and what ffprobe reports of it:
\* probe is "ok" (return code 0), "nonzero" (another return code) or "raises"
\* (subprocess.run or json.loads raised); width and height are compared with
\* the configured ones ("ok", "wrong") or are not integers ("unparsable");
\* duration is [kind, value] with kind "number" or "unparsable".
MediaDurations ==
    {[kind |-> "unparsable", value |-> 0]}
        \cup {[kind |-> "number", value |-> n] : n \in 0..MaxDuration}
Artifacts ==
    [exists : BOOLEAN, size_zero : BOOLEAN, probe : {"ok", "nonzero", "raises"},
     has_video : BOOLEAN, width : {"ok", "wrong", "unparsable"}, height : {"ok", "wrong"},
     duration : MediaDurations, has_audio : BOOLEAN]

AudioRules == {"exists", "size", "probe", "duration_max", "duration_zero"}
VideoRules == {"exists", "size", "probe", "video_stream", "width", "height",
               "duration_max", "duration_zero", "audio_track"}

Report(issues, executed) == [issues |-> issues, executed |-> executed]

\* lines 225-231 and 319-326
DurationIssues(d, ceiling) ==
    IssueIf(ExceedsCeiling(d.value, ceiling), Issue("duration_max", "exceeds", 0))
        \o IssueIf(d.value = 0, Issue("duration_zero", "zero", 0))

\* validate_audio, lines 187-244
ValidateAudio(a, ceiling) ==
    IF ~a.exists
    THEN Report(<<Issue("exists", "not_found", 0)>>, {"exists"})
    ELSE IF a.size_zero
    THEN Report(<<Issue("size", "empty", 0)>>, {"exists", "size"})
    ELSE IF a.probe = "raises" \/ (a.probe = "ok" /\ a.duration.kind = "unparsable")
    THEN Report(<<Issue("probe", "failed_to_validate", 0)>>, {"exists", "size", "probe"})
    ELSE IF a.probe = "nonzero"
    THEN Report(<<Issue("probe", "failed_to_probe", 0)>>, {"exists", "size", "probe"})
    ELSE Report(DurationIssues(a.duration, ceiling), AudioRules)

\* lines 299-313 of validate_video
StreamIssues(a) ==
    IF ~a.has_video THEN <<Issue("video_stream", "none", 0)>>
    ELSE IssueIf(a.width = "wrong", Issue("width", "wrong", 0))
             \o IssueIf(a.height = "wrong", Issue("height", "wrong", 0))

StreamRules(a) ==
    IF ~a.has_video THEN {"video_stream"} ELSE {"video_stream", "width", "height"}

\* validate_video, lines 255-343
ValidateVideo(a, ceiling) ==
    IF ~a.exists
    THEN Report(<<Issue("exists", "not_found", 0)>>, {"exists"})
    ELSE IF a.size_zero
    THEN Report(<<Issue("size", "empty", 0)>>, {"exists", "size"})
    ELSE IF a.probe = "raises"
    THEN Report(<<Issue("probe", "failed_to_validate", 0)>>, {"exists", "size", "probe"})
    ELSE IF a.probe = "nonzero"
    THEN Report(<<Issue("probe", "failed_to_probe", 0)>>, {"exists", "size", "probe"})
    ELSE IF a.has_video /\ a.width = "unparsable"
    THEN Report(<<Issue("probe", "failed_to_validate", 0)>>,
                {"exists", "size", "probe", "video_stream"})
    ELSE IF a.duration.kind = "unparsable"
    THEN Report(StreamIssues(a) \o <<Issue("probe", "failed_to_validate", 0)>>,
                {"exists", "size", "probe"} \cup StreamRules(a))
    ELSE Report(StreamIssues(a) \o DurationIssues(a.duration, ceiling)
                    \o IssueIf(~a.has_audio, Issue("audio_track", "none", 0)),
                {"exists", "size", "probe", "duration_max", "duration_zero", "audio_track"}
                    \cup StreamRules(a))

ValidateArtifactInit ==
    /\ v_ceiling \in Ceilings
    /\ v_script = DefaultScript
    /\ v_artifact \in Artifacts
    /\ ValidatorIdle

ValidateAudioCall ==
    /\ v_call = "none"
    /\ v_call' = "audio"
    /\ v_raised' = FALSE
    /\ v_issues' = ValidateAudio(v_artifact, v_ceiling).issues
    /\ v_executed' = ValidateAudio(v_artifact, v_ceiling).executed
    /\ UNCHANGED <<v_ceiling, v_script, v_artifact>>

ValidateVideoCall ==
    /\ v_call = "none"
    /\ v_call' = "video"
    /\ v_raised' = FALSE
    /\ v_issues' = ValidateVideo(v_artifact, v_ceiling).issues
    /\ v_executed' = ValidateVideo(v_artifact, v_ceiling).executed
    /\ UNCHANGED <<v_ceiling, v_script, v_artifact>>

ValidateArtifactStep == ValidateAudioCall \/ ValidateVideoCall

\* ------------------------------------------------------------------------
\* app/api/routes.py: generate_video and the exceptions that reach it
\* ------------------------------------------------------------------------
PublishStage == NumStages

\* what a stage's collaborator can raise once its own retries are over;
\* upload_video raises the four kinds of youtube_uploader.py lines 173-191
StageFailures(k) ==
    IF k = PublishStage
    THEN {"QuotaExceededError", "AuthenticationError", "RateLimitError", "YouTubeUploadError"}
    ELSE {"Exception"}

\* what VideoOrchestrator() can raise: YouTubeUploader._setup_credentials
\* (youtube_uploader.py line 58) or any other constructor
ConstructorFailures == {"AuthenticationError", "Exception"}

InFlight(type, cause, step) == [type |-> type, cause |-> cause, step |-> step]
NoneInFlight == InFlight("none", "none", "none")

\* the except clauses of generate_video, in order (lines 75-105)
Handler(e) ==
    IF e.type = "QuotaExceededError" THEN "quota"
    ELSE IF e.type = "AuthenticationError" THEN "authentication"
    ELSE IF e.type = "PipelineError" THEN "pipeline"
    ELSE "unexpected"

StatusCode(handler) ==
    IF handler = "quota" THEN 429
    ELSE IF handler = "authentication" THEN 401
    ELSE 500

Response(status, handler, cause, step) ==
    [status |-> status, handler |-> handler, cause |-> cause, step |-> step]

GenerateInit ==
    /\ orchestrator_cached = FALSE
    /\ gpc = "idle"
    /\ g_stage = 0
    /\ g_exc = NoneInFlight
    /\ responses = <<>>

GenerateUnused == GenerateInit

\* a request enters the try block of generate_video
Request ==
    /\ gpc = "idle"
    /\ Len(responses) < MaxRequests
    /\ gpc' = "get_orchestrator"
    /\ UNCHANGED <<orchestrator_cached, g_stage, g_exc, responses>>

\* get_orchestrator(): the first call constructs the orchestrator
GetOrchestrator(outcome) ==
    /\ gpc = "get_orchestrator"
    /\ IF orchestrator_cached \/ outcome = "ok"
       THEN /\ orchestrator_cached' = TRUE
            /\ gpc' = "run_pipeline"
            /\ g_stage' = 1
            /\ UNCHANGED g_exc
       ELSE /\ gpc' = "handler"
            /\ g_exc' = InFlight(outcome, outcome, "none")
            /\ UNCHANGED <<orchestrator_cached, g_stage>>
    /\ UNCHANGED responses

\* a step function returns; after the last one run_pipeline returns its result
StageReturns ==
    /\ gpc = "run_pipeline"
    /\ IF g_stage < NumStages
       THEN /\ g_stage' = g_stage + 1
            /\ UNCHANGED <<gpc, responses>>
       ELSE /\ g_stage' = 0
            /\ gpc' = "idle"
            /\ responses' = Append(responses, Response(200, "none", "none", "none"))
    /\ UNCHANGED <<orchestrator_cached, g_exc>>

\* the collaborator of the current stage raises inside the step function
StageRaises(kind) ==
    /\ gpc = "run_pipeline"
    /\ kind \in StageFailures(g_stage)
    /\ gpc' = "step_except"
    /\ g_exc' = InFlight(kind, kind, "none")
    /\ UNCHANGED <<orchestrator_cached, g_stage, responses>>

\* `except Exception as e: raise PipelineError(..., step=...)` of the step function
StepWraps ==
    /\ gpc = "step_except"
    /\ gpc' = "pipeline_except"
    /\ g_exc' = InFlight("PipelineError", g_exc.cause, StageNames[g_stage])
    /\ UNCHANGED <<orchestrator_cached, g_stage, responses>>

\* `except Exception as e: ... raise PipelineError(...)` of run_pipeline
PipelineWraps ==
    /\ gpc = "pipeline_except"
    /\ gpc' = "handler"
    /\ g_exc' = InFlight("PipelineError", g_exc.cause, g_exc.step)
    /\ g_stage' = 0
    /\ UNCHANGED <<orchestrator_cached, responses>>

\* the first matching except clause of generate_video answers
Handle ==
    /\ gpc = "handler"
    /\ gpc' = "idle"
    /\ responses' = Append(responses,
                           Response(StatusCode(Handler(g_exc)), Handler(g_exc), g_exc.cause, g_exc.step))
    /\ g_exc' = NoneInFlight
    /\ UNCHANGED <<orchestrator_cached, g_stage>>

GenerateStep ==
    \/ Request
    \/ \E outcome \in {"ok"} \cup ConstructorFailures : GetOrchestrator(outcome)
    \/ StageReturns
    \/ \E kind \in StageFailures(g_stage) : StageRaises(kind)
    \/ StepWraps
    \/ PipelineWraps
    \/ Handle

\* ------------------------------------------------------------------------
\* The retry policies of the audio, the upload and the clip service
\* (app/services/audio_generator.py, app/services/youtube_uploader.py,
\* app/services/video_generator.py)
\* ------------------------------------------------------------------------
\* the classes of app/core/exceptions.py an exception of class t is an instance of
Ancestors(t) ==
    {t, "VideoAutomationError", "Exception"}
        \cup (IF t \in {"RateLimitError", "QuotaExceededError", "AuthenticationError",
                       "VideoAPIError"}
              THEN {"APIError"} ELSE {})
        \cup (IF t = "VideoClipError" THEN {"VideoGenerationError"} ELSE {})
        \cup (IF t = "DurationExceededError" THEN {"ValidationError"} ELSE {})

\* the `exceptions` argument of the decorator of each service
RetryableTypesAny(s) == {"Exception"}
RetryableTypes(s) ==
    CASE s = "upload" -> {"RateLimitError"}
      [] s = "clip" -> {"VideoAPIError", "RateLimitError", "VideoGenerationError"}
      [] OTHER -> {"Exception"}

PolicySingleAttempt(s) ==
    [max_attempts |-> 1, base_delay |-> (IF s \in {"upload", "clip"} THEN 5 ELSE 1),
     exceptions |-> RetryableTypes(s)]

\* the decorator arguments: generate_audio (line 81), upload_video (lines
\* 60-64), generate_video_clip (video_generator.py lines 40-44)
Policy(s) ==
    [max_attempts |-> 3, base_delay |-> (IF s \in {"upload", "clip"} THEN 5 ELSE 1),
     exceptions |-> RetryableTypes(s)]

\* isinstance(e, exceptions)
IsInstance(t, classes) == Ancestors(t) \cap classes # {}

\* what one execution of the function body can raise after its request to the provider
ServiceFailures(s) ==
    CASE s = "upload" ->
             {"QuotaExceededError", "AuthenticationError", "RateLimitError", "YouTubeUploadError"}
      [] s = "clip" ->
             \* lines 82-85: any other exception is raised as VideoGenerationError
             {"VideoGenerationError", "VideoAPIError", "RateLimitError"}
      [] OTHER -> {"AudioGenerationError", "DurationExceededError"}

ServiceInit ==
    /\ svc \in {"audio", "upload", "clip"}
    /\ svc_errors = <<>>
    /\ provider_calls = 0
    /\ max_attempts = Policy(svc).max_attempts
    /\ base_delay = Policy(svc).base_delay
    /\ jitter = TRUE
    /\ attempt = 0
    /\ rpc = "call"
    /\ calls = 0
    /\ sleeps = 0
    /\ delay = 0
    /\ last_exception = "none"
    /\ raised_kind = "none"
    /\ only_retryable = TRUE
    /\ retry_after = 0
    /\ raised_exc = NoRaised

ServiceUnused ==
    /\ svc = "none"
    /\ svc_errors = <<>>
    /\ provider_calls = 0

\* the function body returns its result
ServiceAttemptReturns ==
    /\ RetryCallReturns
    /\ provider_calls' = provider_calls + 1
    /\ UNCHANGED <<svc, svc_errors>>

\* the function body raises an exception of class t; the RateLimitError of
\* upload_video carries no retry_after (youtube_uploader.py line 183)
ServiceAttemptRaises(t, f) ==
    /\ t \in ServiceFailures(svc)
    /\ IF IsInstance(t, Policy(svc).exceptions)
       THEN RetryCallRaisesRetryable(IF t = "RateLimitError" THEN "rate_limit" ELSE "retryable", 0, f)
       ELSE RetryCallRaisesOther
    /\ svc_errors' = Append(svc_errors, t)
    /\ provider_calls' = provider_calls + 1
    /\ UNCHANGED svc

ServiceSleep == RetrySleep /\ UNCHANGED svcVars

ServiceStep ==
    \/ ServiceAttemptReturns
    \/ \E t \in ServiceFailures(svc), f \in JitterTenths : ServiceAttemptRaises(t, f)
    \/ ServiceSleep

\* ------------------------------------------------------------------------
\* Runs of run_pipeline side by side: the job id and the workspace of each
\* (app/utils/file_manager.py, app/pipeline/orchestrator.py)
\* ------------------------------------------------------------------------
\* the manual run (POST /generate, /generate/async) and the run the
\* scheduler's worker thread makes (scheduled_video_generation)
Runs == {"manual", "scheduled"}

Suffixes == 1..NumSuffixes

\* f"{timestamp}_{unique_id}": the second of the call and the first 8 hex
\* digits of a uuid4
JobId(timestamp, unique_id) == [timestamp |-> timestamp, unique_id |-> unique_id]

NoJobId == JobId(0, 0)

\* the directories of job id
JobDirs(id) == {[type |-> t, job_id |-> id] : t \in AllDirs}

JobsInit ==
    /\ clock = 0
    /\ retention \in BOOLEAN
    /\ jpc = [r \in Runs |-> "idle"]
    /\ jid = [r \in Runs |-> NoJobId]
    /\ job_dirs = {}
    /\ artifacts = {}

JobsUnused ==
    /\ clock = 0
    /\ retention = FALSE
    /\ jpc = [r \in Runs |-> "unused"]
    /\ jid = [r \in Runs |-> NoJobId]
    /\ job_dirs = {}
    /\ artifacts = {}

\* a second of wall-clock time passes
SecondPasses ==
    /\ clock < MaxClock
    /\ clock' = clock + 1
    /\ UNCHANGED <<retention, jpc, jid, job_dirs, artifacts>>

\* generate_job_id, lines 33-41, called at orchestrator.py:52: uuid4 is
\* random, so its first 8 hex digits are any value
GenerateJobId(r, unique_id) ==
    /\ jpc[r] = "idle"
    /\ jid' = [jid EXCEPT ![r] = JobId(clock, unique_id)]
    /\ jpc' = [jpc EXCEPT ![r] = "named"]
    /\ UNCHANGED <<clock, retention, job_dirs, artifacts>>

\* create_job_directories, lines 43-67: mkdir(parents=True, exist_ok=True)
\* accepts a directory that is already there
CreateJobDirectories(r) ==
    /\ jpc[r] = "named"
    /\ job_dirs' = job_dirs \cup JobDirs(jid[r])
    /\ jpc' = [jpc EXCEPT ![r] = "running"]
    /\ UNCHANGED <<clock, retention, jid, artifacts>>

\* a stage of run r writes a file into a directory of its job (get_job_path)
SaveArtifact(r, type) ==
    /\ jpc[r] = "running"
    /\ [type |-> type, job_id |-> jid[r]] \in job_dirs
    /\ artifacts' = artifacts \cup {[owner |-> r, type |-> type, job_id |-> jid[r]]}
    /\ UNCHANGED <<clock, retention, jpc, jid, job_dirs>>

\* run_pipeline returns its result, orchestrator.py:100
RunSucceeds(r) ==
    /\ jpc[r] = "running"
    /\ jpc' = [jpc EXCEPT ![r] = "done"]
    /\ UNCHANGED <<clock, retention, jid, job_dirs, artifacts>>

\* the except clause of run_pipeline, orchestrator.py:102-115:
\* delete_job_files(job_id) removes outputs/<type>/<job_id> with all it holds
RunFails(r) ==
    /\ jpc[r] = "running"
    /\ IF retention
       THEN /\ job_dirs' = job_dirs \ JobDirs(jid[r])
            /\ artifacts' = {a \in artifacts : a.job_id # jid[r]}
       ELSE UNCHANGED <<job_dirs, artifacts>>
    /\ jpc' = [jpc EXCEPT ![r] = "failed"]
    /\ UNCHANGED <<clock, retention, jid>>

JobsStep ==
    \/ SecondPasses
    \/ \E r \in Runs, unique_id \in Suffixes : GenerateJobId(r, unique_id)
    \/ \E r \in Runs : CreateJobDirectories(r)
    \/ \E r \in Runs, type \in AllDirs : SaveArtifact(r, type)
    \/ \E r \in Runs : RunSucceeds(r)
    \/ \E r \in Runs : RunFails(r)

\* ------------------------------------------------------------------------
\* The threads of the server process (main.py, app/api/routes.py,
\* scheduler.py) and the sleep of the retry wrapper (app/utils/retry.py)
\* ------------------------------------------------------------------------
Clients == 1..MaxClients

\* POST /generate, POST /generate/async, GET /status
Routes == {"generate", "generate_async", "status"}

\* a request: "none" (not sent), "pending" (received, its handler not
\* started), "running" (its handler executes on the event loop), "sleeping"
\* (time.sleep of the retry wrapper, called from the handler), "answered";
\* "background", "background_sleeping", "finished" for the task a handler
\* left to BackgroundTasks
Req(route, st) == [route |-> route, state |-> st]

NoReq == Req("none", "none")

LoopInit ==
    /\ loop_task = 0
    /\ req = [q \in Clients |-> NoReq]
    /\ sched_thread = "idle"

LoopUnused ==
    /\ loop_task = 0
    /\ req = [q \in Clients |-> NoReq]
    /\ sched_thread = "unused"

\* a client sends a request
Arrive(q, route) ==
    /\ req[q] = NoReq
    /\ req' = [req EXCEPT ![q] = Req(route, "pending")]
    /\ UNCHANGED <<loop_task, sched_thread>>

\* uvicorn.run(...) of main.py:98-104 serves all requests on one event loop:
\* the loop starts a handler when it executes no other
Dispatch(q) ==
    /\ req[q].state = "pending"
    /\ loop_task = 0
    /\ loop_task' = q
    /\ req' = [req EXCEPT ![q].state = "running"]
    /\ UNCHANGED sched_thread

\* async def generate_video, routes.py:54-73: run_pipeline is called in the
\* coroutine itself, so an attempt that fails inside it reaches
\* time.sleep(delay), retry.py:77, on the thread of the event loop
HandlerSleeps(q) ==
    /\ req[q] = Req("generate", "running")
    /\ req' = [req EXCEPT ![q].state = "sleeping"]
    /\ UNCHANGED <<loop_task, sched_thread>>

\* time.sleep returns and the wrapper calls the function again
HandlerWakes(q) ==
    /\ req[q].state = "sleeping"
    /\ req' = [req EXCEPT ![q].state = "running"]
    /\ UNCHANGED <<loop_task, sched_thread>>

\* the handler returns (or raises HTTPException) and the loop is free again;
\* generate_video_async, routes.py:122-133, leaves run_pipeline to
\* BackgroundTasks, which runs a plain function in a pool thread
HandlerReturns(q) ==
    /\ req[q].state = "running"
    /\ loop_task' = 0
    /\ req' = [req EXCEPT ![q].state =
                  IF req[q].route = "generate_async" THEN "background" ELSE "answered"]
    /\ UNCHANGED sched_thread

\* the background run of run_pipeline: a failed attempt, time.sleep in the
\* pool thread, the next attempt, the end of the run
BackgroundSleeps(q) ==
    /\ req[q].state = "background"
    /\ req' = [req EXCEPT ![q].state = "background_sleeping"]
    /\ UNCHANGED <<loop_task, sched_thread>>

BackgroundWakes(q) ==
    /\ req[q].state = "background_sleeping"
    /\ req' = [req EXCEPT ![q].state = "background"]
    /\ UNCHANGED <<loop_task, sched_thread>>

BackgroundEnds(q) ==
    /\ req[q].state = "background"
    /\ req' = [req EXCEPT ![q].state = "finished"]
    /\ UNCHANGED <<loop_task, sched_thread>>

\* scheduler = BackgroundScheduler(), scheduler.py:14: the schedule loop has
\* its own thread and runs scheduled_video_generation in a worker thread
ScheduledRunStarts ==
    /\ sched_thread = "idle"
    /\ sched_thread' = "running"
    /\ UNCHANGED <<loop_task, req>>

ScheduledRunSleeps ==
    /\ sched_thread = "running"
    /\ sched_thread' = "sleeping"
    /\ UNCHANGED <<loop_task, req>>

ScheduledRunWakes ==
    /\ sched_thread = "sleeping"
    /\ sched_thread' = "running"
    /\ UNCHANGED <<loop_task, req>>

ScheduledRunEnds ==
    /\ sched_thread = "running"
    /\ sched_thread' = "idle"
    /\ UNCHANGED <<loop_task, req>>

LoopStep ==
    \/ \E q \in Clients, route \in Routes : Arrive(q, route)
    \/ \E q \in Clients : Dispatch(q)
    \/ \E q \in Clients : HandlerSleeps(q)
    \/ \E q \in Clients : HandlerWakes(q)
    \/ \E q \in Clients : HandlerReturns(q)
    \/ \E q \in Clients : BackgroundSleeps(q)
    \/ \E q \in Clients : BackgroundWakes(q)
    \/ \E q \in Clients : BackgroundEnds(q)
    \/ ScheduledRunStarts
    \/ ScheduledRunSleeps
    \/ ScheduledRunWakes
    \/ ScheduledRunEnds

\* ------------------------------------------------------------------------
\* A whole run: run_pipeline (app/pipeline/orchestrator.py) with the clip
\* stage carried out by generate_clips_batch and the retried unit tasks
\* generate_video_clip (app/services/video_generator.py)
\* ------------------------------------------------------------------------
Units == 1..MaxUnits

RunInit ==
    /\ PipelineInit
    /\ \E n \in 0..MaxUnits, w \in 1..MaxUnits : num_prompts = n /\ max_parallel_clips = w
    /\ bpc = "start"
    /\ BatchRest
    /\ unit_attempts = [i \in Units |-> 0]

RunUnused == unit_attempts = [i \in Units |-> 0]

\* orchestrator.py:51-58
RunStart ==
    /\ \E id \in JobIds, fail_at \in {"none"} \cup AllDirs, words \in InnerWords :
          PipelineStart(id, fail_at, words)
    /\ UNCHANGED <<batchVars, unit_attempts>>

\* the script, audio, combination and upload stages, orchestrator.py:61-100
RunOtherStage ==
    /\ \E k \in (1..NumStages) \ {2}, collab \in {"ok", "raise"},
          valid \in {"pass", "fail", "raise"}, save \in {"ok", "raise"}, words \in InnerWords :
          RunStage(k, collab, valid, save, words)
    /\ UNCHANGED <<batchVars, unit_attempts>>

\* _step_generate_video_clips calls generate_clips_batch, orchestrator.py:175
ClipStageBegins ==
    /\ pstatus = "running"
    /\ stage_idx = 1
    /\ BatchBegin
    /\ UNCHANGED <<pipelineVars, unit_attempts>>

ClipWorkerStart == WorkerStart /\ UNCHANGED <<pipelineVars, unit_attempts>>

\* One execution of the body of generate_video_clip for scene i inside its
\* retry wrapper (video_generator.py:40-85): it returns, or raises an
\* exception of class outcome, which the wrapper retries after a sleep until
\* the attempts of the policy are used up.
UnitAttempt(i, outcome) ==
    /\ i \in running
    /\ unit_attempts[i] < Policy("clip").max_attempts
    /\ unit_attempts' = [unit_attempts EXCEPT ![i] = @ + 1]
    /\ IF outcome = "ok"
       THEN WorkerFinish(i, TRUE)
       ELSE IF /\ IsInstance(outcome, Policy("clip").exceptions)
               /\ unit_attempts[i] + 1 < Policy("clip").max_attempts
            THEN UNCHANGED batchVars
            ELSE WorkerFinish(i, FALSE)
    /\ UNCHANGED pipelineVars

ClipCollect == Collect /\ UNCHANGED <<pipelineVars, unit_attempts>>

ClipBatchReturn == BatchReturn /\ UNCHANGED <<pipelineVars, unit_attempts>>

ClipBatchRaise == BatchRaise /\ UNCHANGED <<pipelineVars, unit_attempts>>

\* generate_clips_batch has returned or raised: the rest of
\* _step_generate_video_clips, orchestrator.py:177-181
ClipStageEnds ==
    /\ bpc \in {"returned", "raised"}
    /\ \E words \in InnerWords :
          RunStage(2, IF bpc = "returned" THEN "ok" ELSE "raise", "pass", "ok", words)
    /\ UNCHANGED <<batchVars, unit_attempts>>

\* the except clause of run_pipeline, orchestrator.py:102-115
RunHandleFailure ==
    /\ \E fail_at \in {"none"} \cup AllDirs : HandleFailure(fail_at)
    /\ UNCHANGED <<batchVars, unit_attempts>>

RunStep ==
    \/ RunStart
    \/ RunOtherStage
    \/ ClipStageBegins
    \/ ClipWorkerStart
    \/ \E i \in Units, outcome \in {"ok"} \cup ServiceFailures("clip") : UnitAttempt(i, outcome)
    \/ ClipCollect
    \/ ClipBatchReturn
    \/ ClipBatchRaise
    \/ ClipStageEnds
    \/ RunHandleFailure

\* ------------------------------------------------------------------------
\* The upload history (app/services/youtube_uploader.py), written by the
\* manual and the scheduled run of one process
\* ------------------------------------------------------------------------
\* the record of the n-th successful upload of run r
UploadRecord(r, n) == [run |-> r, upload |-> n]

HistoryInit ==
    /\ history_file = <<>>
    /\ upc = [r \in Runs |-> "idle"]
    /\ loaded = [r \in Runs |-> <<>>]
    /\ uploads = [r \in Runs |-> 0]

HistoryUnused ==
    /\ history_file = <<>>
    /\ upc = [r \in Runs |-> "unused"]
    /\ loaded = [r \in Runs |-> <<>>]
    /\ uploads = [r \in Runs |-> 0]

\* upload_video, lines 145-168: the upload is complete and the result built
UploadSucceeds(r) ==
    /\ upc[r] = "idle"
    /\ uploads[r] < MaxUploads
    /\ uploads' = [uploads EXCEPT ![r] = @ + 1]
    /\ upc' = [upc EXCEPT ![r] = "saving"]
    /\ UNCHANGED <<history_file, loaded>>

\* _save_upload_history, lines 203-208: history = json.load(f), or []
HistoryRead(r) ==
    /\ upc[r] = "saving"
    /\ loaded' = [loaded EXCEPT ![r] = history_file]
    /\ upc' = [upc EXCEPT ![r] = "loaded"]
    /\ UNCHANGED <<history_file, uploads>>

\* lines 211-215: history.append(upload_data); json.dump(history, f)
HistoryWrite(r) ==
    /\ upc[r] = "loaded"
    /\ history_file' = Append(loaded[r], UploadRecord(r, uploads[r]))
    /\ upc' = [upc EXCEPT ![r] = "idle"]
    /\ UNCHANGED <<loaded, uploads>>

HistoryStep ==
    \/ \E r \in Runs : UploadSucceeds(r)
    \/ \E r \in Runs : HistoryRead(r)
    \/ \E r \in Runs : HistoryWrite(r)

\* ------------------------------------------------------------------------
\* Specifications
\* ------------------------------------------------------------------------
InitRetry == RetryInit /\ BreakerUnused /\ ThreadsIdle /\ PipelineUnused /\ BatchUnused /\ SchedUnused /\ ValidatorUnused /\ GenerateUnused /\ ServiceUnused /\ JobsUnused /\ LoopUnused /\ RunUnused /\ HistoryUnused
NextRetry == RetryStep /\ UNCHANGED <<breakerVars, threadVars, pipelineVars, batchVars, schedVars, valVars, genVars, svcVars, jobVars, loopVars, runVars, histVars>>
SpecRetry == InitRetry /\ [][NextRetry]_vars

InitBreaker == BreakerInit /\ RetryUnused /\ ThreadsIdle /\ PipelineUnused /\ BatchUnused /\ SchedUnused /\ ValidatorUnused /\ GenerateUnused /\ ServiceUnused /\ JobsUnused /\ LoopUnused /\ RunUnused /\ HistoryUnused
NextBreaker == BreakerStep /\ UNCHANGED <<retryVars, threadVars, pipelineVars, batchVars, schedVars, valVars, genVars, svcVars, jobVars, loopVars, runVars, histVars>>
SpecBreaker == InitBreaker /\ [][NextBreaker]_vars

InitBreakerThreads == BreakerInit /\ RetryUnused /\ ThreadsIdle /\ PipelineUnused /\ BatchUnused /\ SchedUnused /\ ValidatorUnused /\ GenerateUnused /\ ServiceUnused /\ JobsUnused /\ LoopUnused /\ RunUnused /\ HistoryUnused
NextBreakerThreads == ThreadStep /\ UNCHANGED <<retryVars, pipelineVars, batchVars, schedVars, valVars, genVars, svcVars, jobVars, loopVars, runVars, histVars>>
SpecBreakerThreads == InitBreakerThreads /\ [][NextBreakerThreads]_vars

InitPipeline == PipelineInit /\ RetryUnused /\ BreakerUnused /\ ThreadsIdle /\ BatchUnused /\ SchedUnused /\ ValidatorUnused /\ GenerateUnused /\ ServiceUnused /\ JobsUnused /\ LoopUnused /\ RunUnused /\ HistoryUnused
NextPipeline == PipelineStep /\ UNCHANGED <<retryVars, breakerVars, threadVars, batchVars, schedVars, valVars, genVars, svcVars, jobVars, loopVars, runVars, histVars>>
SpecPipeline == InitPipeline /\ [][NextPipeline]_vars

InitBatch == BatchInit /\ RetryUnused /\ BreakerUnused /\ ThreadsIdle /\ PipelineUnused /\ SchedUnused /\ ValidatorUnused /\ GenerateUnused /\ ServiceUnused /\ JobsUnused /\ LoopUnused /\ RunUnused /\ HistoryUnused
NextBatch == BatchStep /\ UNCHANGED <<retryVars, breakerVars, threadVars, pipelineVars, schedVars, valVars, genVars, svcVars, jobVars, loopVars, runVars, histVars>>
SpecBatch == InitBatch /\ [][NextBatch]_vars

InitScheduler == SchedInit /\ RetryUnused /\ BreakerUnused /\ ThreadsIdle /\ PipelineUnused /\ BatchUnused /\ ValidatorUnused /\ GenerateUnused /\ ServiceUnused /\ JobsUnused /\ LoopUnused /\ RunUnused /\ HistoryUnused
NextScheduler == SchedStep /\ UNCHANGED <<retryVars, breakerVars, threadVars, pipelineVars, batchVars, valVars, genVars, svcVars, jobVars, loopVars, runVars, histVars>>
SpecScheduler == InitScheduler /\ [][NextScheduler]_vars

InitValidateScript == ValidateScriptInit /\ RetryUnused /\ BreakerUnused /\ ThreadsIdle /\ PipelineUnused /\ BatchUnused /\ SchedUnused /\ GenerateUnused /\ ServiceUnused /\ JobsUnused /\ LoopUnused /\ RunUnused /\ HistoryUnused
NextValidateScript == ValidateScriptCall /\ UNCHANGED <<retryVars, breakerVars, threadVars, pipelineVars, batchVars, schedVars, genVars, svcVars, jobVars, loopVars, runVars, histVars>>
SpecValidateScript == InitValidateScript /\ [][NextValidateScript]_vars

InitValidateArtifact == ValidateArtifactInit /\ RetryUnused /\ BreakerUnused /\ ThreadsIdle /\ PipelineUnused /\ BatchUnused /\ SchedUnused /\ GenerateUnused /\ ServiceUnused /\ JobsUnused /\ LoopUnused /\ RunUnused /\ HistoryUnused
NextValidateArtifact == ValidateArtifactStep /\ UNCHANGED <<retryVars, breakerVars, threadVars, pipelineVars, batchVars, schedVars, genVars, svcVars, jobVars, loopVars, runVars, histVars>>
SpecValidateArtifact == InitValidateArtifact /\ [][NextValidateArtifact]_vars

InitGenerate == GenerateInit /\ RetryUnused /\ BreakerUnused /\ ThreadsIdle /\ PipelineUnused /\ BatchUnused /\ SchedUnused /\ ValidatorUnused /\ ServiceUnused /\ JobsUnused /\ LoopUnused /\ RunUnused /\ HistoryUnused
NextGenerate == GenerateStep /\ UNCHANGED <<retryVars, breakerVars, threadVars, pipelineVars, batchVars, schedVars, valVars, svcVars, jobVars, loopVars, runVars, histVars>>
SpecGenerate == InitGenerate /\ [][NextGenerate]_vars

InitServices == ServiceInit /\ BreakerUnused /\ ThreadsIdle /\ PipelineUnused /\ BatchUnused /\ SchedUnused /\ ValidatorUnused /\ GenerateUnused /\ JobsUnused /\ LoopUnused /\ RunUnused /\ HistoryUnused
NextServices == ServiceStep /\ UNCHANGED <<breakerVars, threadVars, pipelineVars, batchVars, schedVars, valVars, genVars, jobVars, loopVars, runVars, histVars>>
SpecServices == InitServices /\ [][NextServices]_vars

InitJobs == JobsInit /\ RetryUnused /\ BreakerUnused /\ ThreadsIdle /\ PipelineUnused /\ BatchUnused /\ SchedUnused /\ ValidatorUnused /\ GenerateUnused /\ ServiceUnused /\ LoopUnused /\ RunUnused /\ HistoryUnused
NextJobs == JobsStep /\ UNCHANGED <<retryVars, breakerVars, threadVars, pipelineVars, batchVars, schedVars, valVars, genVars, svcVars, loopVars, runVars, histVars>>
SpecJobs == InitJobs /\ [][NextJobs]_vars

InitLoop == LoopInit /\ RetryUnused /\ BreakerUnused /\ ThreadsIdle /\ PipelineUnused /\ BatchUnused /\ SchedUnused /\ ValidatorUnused /\ GenerateUnused /\ ServiceUnused /\ JobsUnused /\ RunUnused /\ HistoryUnused
NextLoop == LoopStep /\ UNCHANGED <<retryVars, breakerVars, threadVars, pipelineVars, batchVars, schedVars, valVars, genVars, svcVars, jobVars, runVars, histVars>>
SpecLoop == InitLoop /\ [][NextLoop]_vars

InitRun == RunInit /\ RetryUnused /\ BreakerUnused /\ ThreadsIdle /\ SchedUnused /\ ValidatorUnused /\ GenerateUnused /\ ServiceUnused /\ JobsUnused /\ LoopUnused /\ HistoryUnused
NextRun == RunStep /\ UNCHANGED <<retryVars, breakerVars, threadVars, schedVars, valVars, genVars, svcVars, jobVars, loopVars, histVars>>
SpecRun == InitRun /\ [][NextRun]_vars

\* every collaborator call returns or raises, and every thread gets to run
SpecRunFair == SpecRun /\ WF_vars(NextRun)

InitHistory == HistoryInit /\ RetryUnused /\ BreakerUnused /\ ThreadsIdle /\ PipelineUnused /\ BatchUnused /\ SchedUnused /\ ValidatorUnused /\ GenerateUnused /\ ServiceUnused /\ JobsUnused /\ LoopUnused /\ RunUnused
NextHistory == HistoryStep /\ UNCHANGED <<retryVars, breakerVars, threadVars, pipelineVars, batchVars, schedVars, valVars, genVars, svcVars, jobVars, loopVars, runVars>>
SpecHistory == InitHistory /\ [][NextHistory]_vars

\* ------------------------------------------------------------------------
\* Claims
\* ------------------------------------------------------------------------
\* C1: when the wrapped operation fails on every call with a retryable
\* exception, the error leaves the wrapper only after exactly max_attempts
\* invocations: an error that has propagated means calls = max_attempts, and
\* for max_attempts >= 1 the run ends in no other way than by that error.
C1_ExactlyNCalls ==
    only_retryable =>
        /\ calls <= Max(max_attempts, 0)
        /\ (rpc = "raised" => calls = max_attempts /\ raised_kind # "other")
        /\ (rpc \in {"returned", "fell_through"} => max_attempts = 0)

C1_Witness ==
    /\ only_retryable
    /\ rpc = "raised"
    /\ max_attempts = 3
    /\ calls = 3

\* a CircuitBreaker.call by the single caller of SpecBreaker ends in this step
CallEnds == cb_calls' = cb_calls + 1

\* C6: once failure_threshold consecutive calls have failed with the expected
\* exception, every call made before recovery_timeout has elapsed since the
\* last failure raises the circuit-open error and does not invoke func.
C6_FastFailWhileOpen ==
    [][(/\ CallEnds
        /\ streak >= failure_threshold
        /\ last_failure_time # NoTime
        /\ now - last_failure_time < recovery_timeout)
       => (cb_result' = "circuit_open" /\ cb_invocations' = cb_invocations)]_vars

C6_Witness ==
    /\ failure_threshold = 2
    /\ streak = 2
    /\ cb_result = "circuit_open"
    /\ cb_invocations = 2
    /\ cb_calls = 3

\* C7: after the breaker opened and recovery_timeout elapsed, at most one
\* call is inside func as the half-open probe, also with several threads.
C7_SingleProbe ==
    failure_threshold >= 1 =>
    Cardinality({t \in Threads : cpc[t] = "invoke" /\ admitted[t] = "half_open"}) <= 1

\* C8: a call that invokes func in the half-open state closes the breaker
\* and resets failure_count when func returns, and reopens the breaker when
\* func raises the expected exception.
C8_ProbeDecides ==
    [][(CallEnds /\ admitted_state' = "half_open")
       => /\ (cb_result' = "ok" => state' = "closed" /\ failure_count' = 0)
          /\ (cb_result' = "expected" => state' = "open")]_vars

C8_Witness ==
    /\ admitted_state = "half_open"
    /\ cb_result = "ok"
    /\ state = "closed"
    /\ failure_count = 0
    /\ failure_threshold = 2

\* C9 as stated: a call whose func raises an exception other than
\* expected_exception leaves state, failure_count and last_failure_time as
\* they were before the call, from every state.
C9_UnexpectedChangesNothing ==
    [][(CallEnds /\ cb_result' = "unexpected")
       => /\ state' = state
          /\ failure_count' = failure_count
          /\ last_failure_time' = last_failure_time]_vars

\* C9 amended: such a call leaves failure_count and last_failure_time as they
\* were, and leaves state as it was except that a call made in the open
\* state after recovery_timeout has elapsed leaves the breaker half_open.
C9_UnexpectedKeepsCounters ==
    [][(CallEnds /\ cb_result' = "unexpected")
       => /\ failure_count' = failure_count
          /\ last_failure_time' = last_failure_time
          /\ \/ state' = state
             \/ /\ state = "open"
                /\ now - last_failure_time >= recovery_timeout
                /\ state' = "half_open"]_vars

C9_Witness ==
    /\ cb_result = "unexpected"
    /\ admitted_state = "half_open"
    /\ state = "half_open"
    /\ failure_count >= 1

\* C2: a failure of any stage (its collaborator or its validation) never
\* ends in a success result: run_pipeline raises a PipelineError whose step is
\* the name of the stage that failed and whose job_id is the id of the run.
C2_StageFailureRaised ==
    /\ (failed_stage # "none" => pstatus \in {"failing", "raised"})
    /\ (pstatus = "success" => stage_idx = NumStages)
    /\ (pstatus = "raised" /\ failed_stage # "none"
          => /\ error.type = "PipelineError"
             /\ error.step = failed_stage
             /\ error.job_id = job_id
             /\ job_id \in JobIds)

C2_Witness ==
    /\ pstatus = "raised"
    /\ failed_stage = "video_combination"
    /\ validated[4] = "failed"
    /\ error.step = "video_combination"
    /\ error.job_id = job_id

\* C3: the collaborator of stage k+1 is invoked only after the collaborator
\* of stage k succeeded and the validation report of stage k passed, and no
\* collaborator of a later stage is invoked once a stage has failed.
C3_GatedSequence ==
    /\ \A k \in 1..(NumStages - 1) :
          (k + 1) \in invoked => (k \in collab_ok /\ validated[k] = "passed")
    /\ \A k \in 1..NumStages :
          failed_stage = StageNames[k] => \A j \in (k + 1)..NumStages : j \notin invoked

\* C4: for each of the five stages the state advances past the stage only
\* after the stage's validation gate ran on the collaborator's result and passed.
C4_ValidatedBeforeAdvance ==
    \A k \in 1..NumStages : stage_idx >= k => validated[k] = "passed"

C10_SubmissionOrder ==
    bpc = "returned" =>
        /\ Len(batch_result) = num_prompts
        /\ \A i \in 1..num_prompts : batch_result[i] = Clip(i)

\* the scenes whose unit task has finished by raising
FailedScenes == {finished[i].scene : i \in {j \in 1..Len(finished) : ~finished[j].ok}}

\* C11: if a unit task of a batch fails, generate_clips_batch never returns
\* a list (in particular not the results of the siblings that succeeded);
\* the one error it raises names the scene of a task that did fail.
C11_FailureIsAggregate ==
    /\ (FailedScenes # {} => bpc # "returned" /\ batch_result = <<>>)
    /\ (bpc \in {"failing", "raised"} /\ num_prompts > 0
          => batch_error \in FailedScenes /\ batch_result = <<>>)

C11_Witness ==
    /\ bpc = "raised"
    /\ num_prompts = 3
    /\ batch_error = 2
    /\ FailedScenes = {2}
    /\ Len(finished) = 3
    /\ Len(clips) >= 1

\* C12: at every moment of a batch at most min(max_parallel_clips,
\* len(prompts)) unit tasks are executing.
C12_ConcurrencyBound ==
    Cardinality(running) <= Min(max_parallel_clips, num_prompts)

C12_Witness ==
    /\ num_prompts = 3
    /\ max_parallel_clips = 2
    /\ Cardinality(running) = 2
    /\ started = 3

\* C13: two executions of the recurring trigger 'video_generation_job' are
\* never in progress at once, and a firing that comes due while one is in
\* progress begins no run
C13_NoOverlappingFirings == instances[Recurring] <= 1
C13_Witness == instances[Recurring] = 1 /\ skipped >= 1 /\ sched_running

\* a step that is a call of start_scheduler
IsStartCall == Len(op_log') = Len(op_log) + 1 /\ op_log'[Len(op_log')] = "start"

\* C14: a start_scheduler call that directly follows a start_scheduler call
\* which returned changes neither the registered triggers nor the scheduler,
\* and leaves exactly one trigger of id 'video_generation_job'
C14_SecondStartChangesNothing ==
    [][(/\ IsStartCall
        /\ op_log # <<>>
        /\ op_log[Len(op_log)] = "start"
        /\ op_outcome = "returned")
       => /\ jobstore' = jobstore
          /\ sched_running' = sched_running
          /\ sched_running'
          /\ instances' = instances
          /\ op_outcome' \in {"returned", "raised"}
          /\ Cardinality({j \in jobstore' : j.id = Recurring}) = 1]_vars
C14_Witness ==
    /\ op_log = <<"start", "start">>
    /\ op_outcome = "returned"
    /\ sched_running
    /\ jobstore = {[id |-> Recurring, added |-> 1]}

\* a step in which a run of scheduled_video_generation ends in a failure
IsFailedRun == failures' = failures + 1

\* C15: when a run fails, scheduled_video_generation still returns normally,
\* the scheduler keeps running and every registered trigger stays registered
C15_FailureAbsorbed ==
    [][IsFailedRun
       => /\ fn_outcome' = "returned"
          /\ jobstore' = jobstore
          /\ sched_running' = sched_running]_vars
C15_Witness ==
    /\ failures >= 1
    /\ fn_outcome = "returned"
    /\ sched_running
    /\ instances[Recurring] = 1
    /\ firings >= 2
    /\ op_log = <<"start">>

\* the rules of validate_script, in the order the code evaluates them
Rule(rule, scene) == [rule |-> rule, scene |-> scene]

RECURSIVE SceneRules(_, _)
SceneRules(n, i) ==
    IF i > n THEN <<>>
    ELSE <<Rule("scene_required_duration", i), Rule("scene_description", i),
           Rule("scene_duration", i)>> \o SceneRules(n, i + 1)

ScriptRules(s) ==
    <<Rule("required_title", 0), Rule("required_description", 0), Rule("required_tags", 0),
      Rule("required_scenes", 0), Rule("title", 0), Rule("description", 0), Rule("tags", 0),
      Rule("scenes", 0)>>
        \o SceneRules(Len(s.scenes), 1)
        \o <<Rule("total_duration", 0)>>

\* whether script s violates rule r
Violates(s, ceiling, r) ==
    CASE r.rule = "required_title" -> s.title = "missing"
      [] r.rule = "required_description" -> s.description = "missing"
      [] r.rule = "required_tags" -> s.tags = "missing"
      [] r.rule = "required_scenes" -> s.scenes_kind = "missing"
      [] r.rule = "title" -> s.title \in {"empty", "too_long"}
      [] r.rule = "description" -> s.description \in {"empty", "too_long"}
      [] r.rule = "tags" -> s.tags \in {"not_list", "empty"}
      [] r.rule = "scenes" -> s.scenes_kind = "not_list" \/ (s.scenes_kind = "list" /\ s.scenes = <<>>)
      [] r.rule = "scene_required_duration" -> s.scenes[r.scene].duration.kind = "missing"
      [] r.rule = "scene_description" -> s.scenes[r.scene].description = "blank"
      [] r.rule = "scene_duration" ->
            s.scenes[r.scene].duration.kind = "number" /\ s.scenes[r.scene].duration.value <= 0
      [] r.rule = "total_duration" ->
            s.scenes_kind = "list" /\ TotalDuration(s.scenes, 1) >= ceiling

ViolatedRules(s, ceiling) ==
    LET Test(r) == Violates(s, ceiling, r) IN SelectSeq(ScriptRules(s), Test)

\* C16: a report of validate_script holds exactly one issue per rule the
\* script violates, in the order of the rules: no issue keeps a later rule
\* from being evaluated
C16_OneIssuePerViolatedRule ==
    (v_call = "script" /\ ~v_raised)
        => /\ Len(v_issues) = Len(ViolatedRules(v_script, v_ceiling))
           /\ \A i \in 1..Len(v_issues) :
                 Rule(v_issues[i].rule, v_issues[i].scene) = ViolatedRules(v_script, v_ceiling)[i]
C16_Witness ==
    /\ v_call = "script"
    /\ ~v_raised
    /\ v_script.title = "empty"
    /\ v_script.tags = "empty"
    /\ v_script.description = "ok"
    /\ Len(v_script.scenes) = 1
    /\ Len(v_issues) = 2
    /\ v_issues[1].rule = "title"
    /\ v_issues[2].rule = "tags"

\* C17: a call of validate_audio or validate_video evaluates every one of its
\* rules, whatever the earlier rules found (for validate_video: on a file that
\* has a video stream, to which the dimension rules apply)
C17_AllRulesRun ==
    /\ (v_call = "audio" => v_executed = AudioRules)
    /\ (v_call = "video" /\ v_artifact.has_video => v_executed = VideoRules)

\* C18: every call of validate_script on a script with a well-formed title
\* returns a report, whatever the kind of the scene fields
C18_AlwaysReports == (v_call = "script" /\ v_script.title # "number") => ~v_raised

\* C19: for a script whose scenes are a list of scenes with numeric or absent
\* durations, the report holds the total-duration issue exactly when the sum
\* of the durations is at least max_video_duration
C19_TotalDurationRule ==
    (v_call = "script" /\ ~v_raised /\ v_script.scenes_kind = "list")
        => ((\E i \in 1..Len(v_issues) : v_issues[i].rule = "total_duration")
              <=> TotalDuration(v_script.scenes, 1) >= v_ceiling)
C19_Witness ==
    /\ v_call = "script"
    /\ ~v_raised
    /\ Len(v_script.scenes) = 2
    /\ TotalDuration(v_script.scenes, 1) = v_ceiling
    /\ \E i \in 1..Len(v_issues) : v_issues[i].rule = "total_duration"

\* C20: a request whose publish stage failed by quota exhaustion or by
\* authentication is answered by the quota or the authentication handler of
\* generate_video, not by the handler of pipeline errors
C20_QuotaAndAuthDistinct ==
    \A i \in 1..Len(responses) :
        (responses[i].step = StageNames[PublishStage]
           /\ responses[i].cause \in {"QuotaExceededError", "AuthenticationError"})
          => /\ responses[i].handler # "pipeline"
             /\ responses[i].handler = (IF responses[i].cause = "QuotaExceededError"
                                        THEN "quota" ELSE "authentication")

\* C21: a DurationExceededError of generate_audio is never followed by another
\* attempt: it is the last error of the call and leaves the wrapper at once
C21_DurationFailureNotRetried ==
    svc = "audio"
        => \A i \in 1..Len(svc_errors) :
              svc_errors[i] = "DurationExceededError"
                => (i = Len(svc_errors) /\ rpc = "raised")

\* C22: upload_video makes at most 3 attempts, each after a RateLimitError of
\* the one before; a quota, authentication or generic upload failure is the
\* last error of the call and leaves the wrapper at once, so that it is the
\* only attempt when it is the first failure
C22_OnlyRateLimitRetried ==
    svc = "upload"
        => /\ calls <= 3
           /\ provider_calls = calls
           /\ \A i \in 1..Len(svc_errors) :
                 svc_errors[i] # "RateLimitError"
                   => (i = Len(svc_errors) /\ rpc = "raised" /\ calls = i /\ raised_exc.serial = i)
           /\ \A i \in 1..Len(svc_errors) :
                 (svc_errors[i] = "RateLimitError" /\ i < 3) => (i < Len(svc_errors) \/ rpc # "raised")
C22_Witness ==
    /\ svc = "upload"
    /\ svc_errors = <<"RateLimitError", "QuotaExceededError">>
    /\ rpc = "raised"
    /\ calls = 2
    /\ sleeps = 1

\* C23: an exception that is not an instance of the retryable kinds leaves the
\* wrapper at the call that raised it: that call is the last one, no sleep
\* follows it, and the exception that leaves is the one that call raised
C23_NonRetryablePropagatesAtOnce ==
    raised_kind = "other"
        => /\ rpc = "raised"
           /\ calls = sleeps + 1
           /\ raised_exc.serial = calls
C23_Witness ==
    /\ raised_kind = "other"
    /\ rpc = "raised"
    /\ max_attempts = 4
    /\ calls = 2
    /\ sleeps = 1

\* a step in which the except clause computes the delay of the next sleep
ComputesDelay == rpc = "call" /\ rpc' = "sleep"

\* C24: with jitter disabled, every delay is at least the delay slept before
\* it in the same call and at most max_delay
C24_DelaysMonotoneAndCapped ==
    [][(ComputesDelay /\ ~jitter) => (delay' >= delay /\ delay' <= max_delay * 100)]_vars

\* C24 (amended): with jitter disabled, a delay computed for a failure that
\* carries no retry_after is at most max_delay, and at least the delay slept
\* before it when that one too followed a failure without retry_after
C24_BackoffMonotoneAndCapped ==
    [][(ComputesDelay /\ ~jitter /\ retry_after' = 0)
         => /\ delay' <= max_delay * 100
            /\ (retry_after = 0 => delay' >= delay)]_vars
C24_Witness ==
    /\ ~jitter
    /\ rpc = "sleep"
    /\ base_delay = 2
    /\ attempt = 3
    /\ sleeps = 2
    /\ retry_after = 0
    /\ delay = max_delay * 100

\* C25: the delay computed for a RateLimitError that carries a retry_after is
\* the larger of the capped exponential delay (after jitter, when enabled) and
\* the retry_after
C25_DelayIsMaxWithRetryAfter ==
    [][(ComputesDelay /\ last_exception' = "rate_limit" /\ retry_after' # 0)
         => \E f \in JitterTenths :
               delay' = Max(JitteredDelay(attempt', f), retry_after' * RetryAfterStep * 100)]_vars
C25_Witness ==
    /\ rpc = "sleep"
    /\ last_exception = "rate_limit"
    /\ retry_after = 1
    /\ ~jitter
    /\ base_delay = 2
    /\ attempt = 3
    /\ delay = max_delay * 100
    /\ delay > retry_after * RetryAfterStep * 100

\* C26: the exception that leaves the wrapper after max_attempts failed
\* attempts is the one the last call raised and carries the attempt count
C26_LastErrorTagged ==
    (rpc = "raised" /\ raised_kind # "other")
        => /\ raised_exc.serial = calls
           /\ raised_exc.attempts = attempt

\* C27: the failure raised by run_pipeline names the stage of the stage tag
\* whenever the caught exception carries one, whatever keywords its message
\* contains; the keyword heuristic names the stage exactly when the caught
\* exception carries no tag.
C27_StageFromTagElseWords ==
    pstatus = "raised" =>
        error.step = (IF pending.step # "none" THEN pending.step
                      ELSE StepByWords(pending.words))

\* an audio-stage failure whose message also contains "script", the first
\* keyword of the heuristic, is attributed to the audio stage
C27_Witness ==
    /\ pstatus = "raised"
    /\ pending.step = "audio_generation"
    /\ "script" \in pending.words
    /\ error.step = "audio_generation"

\* an untagged workspace failure is attributed through its message words
C27_WitnessUntagged ==
    /\ pstatus = "raised"
    /\ pending.step = "none"
    /\ pending.words = {"video"}
    /\ error.step = "video_generation"

\* C28: any two calls of generate_job_id in one process return different
\* job ids, calls made within the same second by runs that execute side by
\* side included.
C28_JobIdsUnique ==
    \A r1 \in Runs, r2 \in Runs :
        (r1 # r2 /\ jid[r1] # NoJobId /\ jid[r2] # NoJobId) => jid[r1] # jid[r2]

\* C29: a manual and a scheduled run that execute side by side are
\* independent jobs: their job ids differ, their workspaces are disjoint, and
\* no step removes an artifact of a run other than the run that fails in
\* that step.
C29_RunsIndependent ==
    [][/\ \A r1 \in Runs, r2 \in Runs :
             (r1 # r2 /\ jpc'[r1] = "running" /\ jpc'[r2] = "running") =>
                 /\ jid'[r1] # jid'[r2]
                 /\ JobDirs(jid'[r1]) \cap JobDirs(jid'[r2]) = {}
        /\ \A a \in artifacts \ artifacts' :
             jpc[a.owner] = "running" /\ jpc'[a.owner] = "failed"]_vars

\* C30: a backoff sleep of the retry wrapper in one job blocks no unrelated
\* work: while the run started by a synchronous generate request sleeps
\* between attempts, a request that has been received can start, a
\* background run can go on and the scheduled run can start.
C30_SleepBlocksNothingElse ==
    \A q \in Clients :
        req[q] = Req("generate", "sleeping") =>
            /\ \A p \in Clients : req[p].state = "pending" => ENABLED Dispatch(p)
            /\ \A p \in Clients : req[p].state = "background" => ENABLED BackgroundEnds(p)
            /\ sched_thread = "idle" => ENABLED ScheduledRunStarts

\* the part that holds: the pool threads and the scheduler's threads go on
\* while the event loop sleeps
C30_OtherThreadsGoOn ==
    \A q \in Clients :
        req[q] = Req("generate", "sleeping") =>
            /\ \A p \in Clients : req[p].state = "background" => ENABLED BackgroundEnds(p)
            /\ sched_thread = "idle" => ENABLED ScheduledRunStarts

\* C33: in every reachable state of a breaker with failure_threshold >= 1, a
\* closed breaker has failure_count < failure_threshold, and an open breaker
\* has failure_count >= failure_threshold and last_failure_time set. (It
\* holds in SpecBreaker, where one caller uses the breaker, and not in
\* SpecBreakerThreads.)
C33_StateMatchesCount ==
    failure_threshold >= 1 =>
        /\ state = "closed" => failure_count < failure_threshold
        /\ state = "open" => (failure_count >= failure_threshold /\ last_failure_time # NoTime)

\* C34: a successful call made in the closed state leaves failure_count (and
\* the state) as it was, so failures separated by successes accumulate: the
\* failure that brings failure_count to failure_threshold opens the breaker.
C34_ClosedSuccessKeepsCount ==
    [][/\ (CallEnds /\ cb_result' = "ok" /\ admitted_state' = "closed")
           => (failure_count' = failure_count /\ state' = "closed")
       /\ (CallEnds /\ cb_result' = "expected" /\ failure_count + 1 >= failure_threshold)
           => (state' = "open" /\ failure_count' = failure_count + 1)]_vars

\* two failures with a success in between have opened a breaker of threshold 2
C34_Witness ==
    /\ failure_threshold = 2
    /\ state = "open"
    /\ failure_count = 2
    /\ streak = 1
    /\ cb_calls = 3
    /\ cb_invocations = 3

\* C35: a call that an open breaker fast-fails leaves state, failure_count
\* and last_failure_time as they were.
C35_FastFailChangesNothing ==
    [][(CallEnds /\ cb_result' = "circuit_open")
       => /\ state' = state
          /\ failure_count' = failure_count
          /\ last_failure_time' = last_failure_time
          /\ state = "open"]_vars

\* a fast-fail that happened some time after the failure that opened the breaker
C35_Witness ==
    /\ cb_result = "circuit_open"
    /\ state = "open"
    /\ now > last_failure_time
    /\ last_failure_time # NoTime
    /\ failure_threshold >= 1

\* C36: for max_attempts = n >= 1, when func first returns on its k-th call
\* after k - 1 retryable failures, the wrapper has invoked it exactly k times
\* (k <= n), has slept exactly k - 1 times and returns; when all n attempts
\* fail it has slept exactly n - 1 times: it never sleeps after the final
\* attempt.
C36_CallsAndSleeps ==
    max_attempts >= 1 =>
        /\ sleeps <= max_attempts - 1
        /\ rpc = "returned" =>
               (calls <= max_attempts /\ attempt = calls - 1 /\ sleeps = calls - 1)
        /\ (rpc = "raised" /\ raised_kind # "other") =>
               (calls = max_attempts /\ sleeps = max_attempts - 1)

\* func returned on its third call of four allowed
C36_Witness ==
    /\ rpc = "returned"
    /\ max_attempts = 4
    /\ calls = 3
    /\ sleeps = 2
    /\ last_exception # "none"

\* all attempts failed
C36_WitnessExhausted ==
    /\ rpc = "raised"
    /\ raised_kind # "other"
    /\ max_attempts = 3
    /\ sleeps = 2

\* C38: generate_clips_batch has returned or raised only when every
\* submitted unit task has finished, and from then on no unit task of the
\* batch starts, runs or finishes: a rollback that follows a batch failure
\* meets no running clip worker.
C38_EndsAfterAllWorkers ==
    bpc \in {"returned", "raised"} =>
        /\ running = {}
        /\ num_prompts > 0 => (started = num_prompts /\ Len(finished) = num_prompts)
        /\ ~ENABLED WorkerStart
        /\ \A i \in 1..num_prompts, ok \in BOOLEAN : ~ENABLED WorkerFinish(i, ok)

\* the failure of scene 1 was the first future to finish, and the error left
\* the batch only after the two other tasks had finished too
C38_Witness ==
    /\ bpc = "raised"
    /\ num_prompts = 3
    /\ batch_error = 1
    /\ Len(finished) = 3
    /\ finished[1].scene = 1
    /\ collected = 1

\* C39: generate_clips_batch called with no prompts does not return (in
\* particular not an empty list): it raises, and no unit task is started.
C39_EmptyBatchRaises ==
    num_prompts = 0 =>
        /\ bpc \in {"start", "raised"}
        /\ started = 0
        /\ running = {}
        /\ finished = <<>>
        /\ batch_result = <<>>

C39_Witness ==
    /\ num_prompts = 0
    /\ bpc = "raised"
    /\ max_parallel_clips >= 1
    /\ started = 0

\* the stages after the clip stage: audio, combination, upload
LaterStages == 3..NumStages

C37_RunTerminates == <>(pstatus \in {"success", "raised"})

\* a run has ended after a unit task used up its three attempts and the
\* batch waited for the other task
C37_Witness ==
    /\ pstatus = "raised"
    /\ bpc = "raised"
    /\ num_prompts = 2
    /\ max_parallel_clips = 1
    /\ unit_attempts[1] = 3
    /\ unit_attempts[2] >= 1
    /\ Len(finished) = 2

\* a run has ended with a result after the clips were made with retries
C37_WitnessSuccess ==
    /\ pstatus = "success"
    /\ bpc = "returned"
    /\ unit_attempts[1] = 3

\* a step that is a call of schedule_immediate_and_recurring
IsImmediateCall == Len(op_log') = Len(op_log) + 1 /\ op_log'[Len(op_log')] = "immediate"

\* a firing of trigger id that begins a run
Submits(id) == Fire(id) /\ instances'[id] = instances[id] + 1

\* C32: schedule_immediate_and_recurring called while the scheduler is not
\* running registers exactly two triggers, the date trigger 'immediate_run'
\* and the recurring trigger 'video_generation_job', and starts the
\* scheduler; the date trigger begins at most one run and is gone once it
\* has fired; a run of the immediate trigger does not keep a recurring
\* firing from beginning a run (the single-instance limit is per id);
\* called while the scheduler is running it changes nothing.
C32_ImmediateAndRecurring ==
    [][/\ (IsImmediateCall /\ sched_running)
           => (jobstore' = jobstore /\ instances' = instances /\ sched_running')
       /\ (IsImmediateCall /\ ~sched_running /\ op_outcome' = "returned")
           => /\ sched_running'
              /\ jobstore' = {[id |-> Immediate, added |-> Len(op_log')],
                               [id |-> Recurring, added |-> Len(op_log')]}
              /\ instances' = instances
       /\ (IsImmediateCall /\ ~sched_running /\ op_outcome' = "raised")
           => (jobstore' = jobstore /\ ~sched_running')
       /\ instances'[Immediate] > instances[Immediate]
           => (instances[Immediate] = 0 /\ ~HasJob(jobstore', Immediate))
       /\ (/\ instances[Immediate] = 1
            /\ instances[Recurring] = 0
            /\ sched_running
            /\ HasJob(jobstore, Recurring)
            /\ firings < MaxFirings)
           => ENABLED Submits(Recurring)]_vars

\* the immediate run and a recurring run are in progress together, after one
\* call that found the scheduler stopped
C32_Witness ==
    /\ op_log = <<"immediate">>
    /\ op_outcome = "returned"
    /\ instances[Immediate] = 1
    /\ instances[Recurring] = 1
    /\ ~HasJob(jobstore, Immediate)
    /\ HasJob(jobstore, Recurring)

\* a second call, made while the scheduler runs, has returned
C32_WitnessSecondCall ==
    /\ Len(op_log) = 2
    /\ op_log[1] = "immediate"
    /\ op_log[2] = "immediate"
    /\ op_outcome = "returned"
    /\ sched_running

\* the records of the uploads that have succeeded and whose save has ended
SavedUploads ==
    {UploadRecord(p[1], p[2]) :
        p \in {q \in Runs \X (1..MaxUploads) :
                  q[2] <= (IF upc[q[1]] = "idle" THEN uploads[q[1]] ELSE uploads[q[1]] - 1)}}

\* C40: the upload history holds exactly one record for every successful
\* upload whose _save_upload_history call has ended, also when a manual and
\* a scheduled run finish uploads at the same time.
C40_OneRecordPerUpload ==
    \A rec \in SavedUploads :
        Cardinality({i \in 1..Len(history_file) : history_file[i] = rec}) = 1

====
